---------------------------- MODULE Spec2Model ----------------------------
(***************************************************************************)
(* A model of the fast-forth compiler front end and optimizer driver:      *)
(*                                                                         *)
(*   - the SSA builder of frontend/src/ssa.rs (SSAConverter and            *)
(*     convert_to_ssa), translated function by function;                   *)
(*   - the optimizer driver of optimizer/src/lib.rs (Optimizer::optimize); *)
(*   - the call-graph-aware inliner (AggressiveInlineOptimizer), whose     *)
(*     source is not among the repository's files and which is modelled    *)
(*     from section 4.3 of the specification.                              *)
(*                                                                         *)
(*   - the pipeline's helpers of src/pipeline.rs (optimization_savings,    *)
(*     convert_to_ir and ssa_to_instructions), the parser of               *)
(*     frontend/src/parser.rs, and the call graph of section 4.2 of the    *)
(*     specification.                                                      *)
(*                                                                         *)
(* Each subsystem has its own specification (SpecSSA, SpecInline and its   *)
(* fair version FairSpecInline, SpecOpt, SpecFix for                       *)
(* Optimizer::optimize_until_fixpoint, SpecStats, SpecLower, SpecParse and *)
(* its fair version FairSpecParse, SpecGraph); the variables of the other  *)
(* subsystems stay idle.                                                   *)
(***************************************************************************)
EXTENDS Integers, Sequences, FiniteSets, TLC

VARIABLES
    program,        \* convert_to_ssa: the Program's definitions (input)
    def_index,      \* convert_to_ssa: position of the `for def in` loop
    converter,      \* convert_to_ssa: the SSAConverter
    functions,      \* convert_to_ssa: the Vec<SSAFunction> built so far
    stack,          \* convert_definition: its local `stack` when it returned
    ssa_pc          \* convert_to_ssa: "loop", "ok" (returned Ok) or "err"

ssaVars == <<program, def_index, converter, functions, stack, ssa_pc>>

VARIABLES
    ir,             \* the ForthIR handed to the inliner or to the optimizer
    level           \* the OptimizationLevel it was created with

inputVars == <<ir, level>>

VARIABLES
    frames,         \* inliner: the sequence being rewritten (main) and, on
                    \* top of it, the active expansion stack
    out,            \* inliner: the rewritten main sequence so far
    inlined,        \* inliner: the number of calls replaced by a body
    inl_pc          \* inliner: "run", "done" (Ok) or "failed" (Err)

inlVars == <<frames, out, inlined, inl_pc>>

VARIABLES
    opt_ir,         \* Optimizer::optimize: its local `ir`
    opt_passes,     \* the passes that were applied, in order
    opt_pc          \* Optimizer::optimize: the statement it is at

optVars == <<opt_ir, opt_passes, opt_pc>>

VARIABLES
    fix_current,    \* optimize_until_fixpoint: `current`
    fix_iterations, \* optimize_until_fixpoint: `iterations`
    fix_result,     \* optimize_until_fixpoint: the IR it returned
    fix_pc          \* optimize_until_fixpoint: "loop", "ok" or "err"

fixVars == <<fix_current, fix_iterations, fix_result, fix_pc>>

VARIABLES
    stats,          \* CompilationStats: instructions_before, instructions_after
    savings,        \* what optimization_savings returned
    stats_pc        \* optimization_savings: "call", "done" or "panic"

statsVars == <<stats, savings, stats_pc>>

VARIABLES
    lower_ir,       \* convert_to_ir: its local `ir`
    lower_index,    \* convert_to_ir: position of the `for func in` loop
    lower_pc        \* compile: "frontend", "loop" (convert_to_ir), "ok", "err"

lowerVars == <<lower_ir, lower_index, lower_pc>>

VARIABLES
    tokens,         \* Parser: `tokens`
    position,       \* Parser: `position`
    pending_value,  \* parse_program: `pending_value`, "Some" or "None"
    active,         \* Parser: the parse functions that have not returned,
                    \* parse_program first, each at the loop it is in
    parse_pc        \* parse_program: "run", "ok" (Program) or "err" (ParseError)

parseVars == <<tokens, position, pending_value, active, parse_pc>>

VARIABLES
    call_graph,     \* the CallGraph that CallGraph::build returned
    cycles,         \* what find_cycles returned
    answer,         \* the last query of the graph and what it returned
    graph_pc        \* "start", "built", or "analysed" (find_cycles was called)

graphVars == <<call_graph, cycles, answer, graph_pc>>

\* The variables of the pipeline's helpers.
moreVars == <<statsVars, lowerVars, parseVars, graphVars>>

vars == <<ssaVars, inputVars, inlVars, optVars, fixVars, moreVars>>

-----------------------------------------------------------------------------
(***************************************************************************)
(* Bounds of the model.                                                    *)
(***************************************************************************)

\* Largest program: the number of definitions plus the number of AST nodes
\* in all their bodies.
MaxProgramSize == 3

\* Largest number of inputs in a definition's declared stack effect.
MaxParams == 3

\* Longest branch of the IF/ELSE definitions converted besides the programs
\* of MaxProgramSize.
MaxBranchLen == 1

\* Largest flat IR: the number of instructions of main and of all word
\* bodies together.
MaxIRSize == 3

\* Largest instruction count handed to optimization_savings.
MaxCount == 9

\* Longest token sequence handed to the parser, besides the sources of the
\* parser's tests.
MaxTokens == 3

-----------------------------------------------------------------------------
(***************************************************************************)
(* The AST (crate::ast, as built by frontend/src/parser.rs).               *)
(***************************************************************************)

IntLiteral(v) == [kind |-> "IntLiteral", value |-> v]
WordRef(n) == [kind |-> "WordRef", name |-> n]
Variable(n) == [kind |-> "Variable", name |-> n]
If(t, e, h) ==
    [kind |-> "If", then_branch |-> t, else_branch |-> e, has_else |-> h]
BeginUntil(b) == [kind |-> "BeginUntil", body |-> b]
BeginWhileRepeat(c, b) ==
    [kind |-> "BeginWhileRepeat", condition |-> c, body |-> b]
DoLoop(b) == [kind |-> "DoLoop", body |-> b]

Definition(n, p, b) == [name |-> n, param_count |-> p, body |-> b]

\* The words without a nested body that the model feeds to the builder.
Leaves ==
    {IntLiteral(1), Variable("v")}
    \cup {WordRef(n) : n \in {"+", "negate", "dup", "drop", "swap", "over",
                              "rot", "@", "!", "foo"}}

\* The words of exactly n AST nodes, given S[k], the word sequences of
\* exactly k nodes, for every k < n.
WordsOfSize(S, n) ==
    (IF n = 1 THEN Leaves ELSE {})
    \cup {If(t, <<>>, FALSE) : t \in S[n - 1]}
    \cup UNION {{If(t, e, TRUE) : t \in S[k], e \in S[n - 1 - k]} : k \in 0..(n - 1)}
    \cup {BeginUntil(b) : b \in S[n - 1]}
    \cup UNION {{BeginWhileRepeat(c, b) : c \in S[k], b \in S[n - 1 - k]}
                : k \in 0..(n - 1)}
    \cup {DoLoop(b) : b \in S[n - 1]}

\* The word sequences of exactly n nodes, given W[k], the words of exactly
\* k nodes, for 1 <= k <= n, and S[k], the sequences of k nodes, for k < n.
SeqsOfSize(W, S, n) ==
    UNION {{<<w>> \o s : w \in W[k], s \in S[n - k]} : k \in 1..n}

Seqs0 == {<<>>}
Words1 == WordsOfSize((0 :> Seqs0), 1)
Seqs1 == SeqsOfSize(<<Words1>>, (0 :> Seqs0), 1)
Words2 == WordsOfSize((0 :> Seqs0) @@ (1 :> Seqs1), 2)
Seqs2 == SeqsOfSize(<<Words1, Words2>>, (0 :> Seqs0) @@ (1 :> Seqs1), 2)
Words3 == WordsOfSize((0 :> Seqs0) @@ (1 :> Seqs1) @@ (2 :> Seqs2), 3)
Seqs3 ==
    SeqsOfSize(<<Words1, Words2, Words3>>,
               (0 :> Seqs0) @@ (1 :> Seqs1) @@ (2 :> Seqs2), 3)

\* The bodies of exactly n nodes (n <= 3).
Bodies == (0 :> Seqs0) @@ (1 :> Seqs1) @@ (2 :> Seqs2) @@ (3 :> Seqs3)

DefName(i) == "w" \o ToString(i)

-----------------------------------------------------------------------------
(***************************************************************************)
(* SSA instructions, blocks and functions (frontend/src/ssa.rs).           *)
(***************************************************************************)

LoadInt(d, v) == [op |-> "LoadInt", dest |-> d, value |-> v]
BinaryOp(d, o, l, r) ==
    [op |-> "BinaryOp", dest |-> d, bop |-> o, left |-> l, right |-> r]
UnaryOp(d, o, x) == [op |-> "UnaryOp", dest |-> d, uop |-> o, operand |-> x]
Call(d, n, a) == [op |-> "Call", dest |-> d, name |-> n, args |-> a]
Branch(c, t, f) ==
    [op |-> "Branch", condition |-> c, true_block |-> t, false_block |-> f]
Jump(t) == [op |-> "Jump", target |-> t]
Return(v) == [op |-> "Return", values |-> v]
Phi(d, inc) == [op |-> "Phi", dest |-> d, incoming |-> inc]
Load(d, a) == [op |-> "Load", dest |-> d, address |-> a]
Store(a, v) == [op |-> "Store", address |-> a, value |-> v]

BasicBlock_new(id) ==
    [id |-> id, instructions |-> <<>>, predecessors |-> <<>>]

SSAFunction_new(name, param_count) ==
    [name |-> name,
     parameters |-> [i \in 1..param_count |-> i - 1],
     blocks |-> <<BasicBlock_new(0)>>,
     entry_block |-> 0]

\* Display of BinaryOperator and UnaryOperator, by Forth word.
BinaryOperator ==
    ("+" :> "add") @@ ("-" :> "sub") @@ ("*" :> "mul") @@ ("/" :> "div")
    @@ ("mod" :> "mod") @@ ("<" :> "lt") @@ (">" :> "gt") @@ ("<=" :> "le")
    @@ (">=" :> "ge") @@ ("=" :> "eq") @@ ("<>" :> "ne") @@ ("and" :> "and")
    @@ ("or" :> "or")

UnaryOperator == ("not" :> "not") @@ ("negate" :> "neg") @@ ("abs" :> "abs")

-----------------------------------------------------------------------------
(***************************************************************************)
(* ForthError.                                                             *)
(***************************************************************************)

NoError == [kind |-> "None", word |-> "", expected |-> 0, found |-> 0]

StackUnderflow(word, expected, found) ==
    [kind |-> "StackUnderflow", word |-> word, expected |-> expected,
     found |-> found]

-----------------------------------------------------------------------------
(***************************************************************************)
(* SSAConverter.  `err` holds the Err a `?` is propagating.  Two fields    *)
(* are not fields of the Rust struct, they record what happened: `handed`  *)
(* lists the registers fresh_register handed out for the current           *)
(* definition, and `seen` is what the construct that raised the error saw: *)
(* the stack it found too short, its caller's stack on entry and when the  *)
(* error was returned, and the converter's blocks on entry.                *)
(***************************************************************************)

Seen(short, stack_in, stack_at, blocks_in) ==
    [short |-> short, stack_in |-> stack_in, stack_at |-> stack_at,
     blocks_in |-> blocks_in]

NoneSeen == Seen(<<>>, <<>>, <<>>, <<>>)

SSAConverter_new ==
    [next_register |-> 0, next_block |-> 0, current_block |-> 0,
     blocks |-> <<>>, err |-> NoError, handed |-> <<>>, seen |-> NoneSeen]

Front(s) == SubSeq(s, 1, Len(s) - 1)
Last(s) == s[Len(s)]

Failed(cv) == cv.err.kind # "None"

Fail(cv, e, seen) == [cv EXCEPT !.err = e, !.seen = seen]

FreshRegisterStuck(cv) ==
    [reg |-> cv.next_register,
     cv |-> [cv EXCEPT !.handed = Append(@, cv.next_register)]]

FreshRegister(cv) ==
    [reg |-> cv.next_register,
     cv |-> [cv EXCEPT !.next_register = @ + 1,
                       !.handed = Append(@, cv.next_register)]]

FreshBlock(cv) ==
    [id |-> cv.next_block, cv |-> [cv EXCEPT !.next_block = @ + 1]]

\* The first block whose id is the current block gets the instruction; when
\* there is none the instruction is dropped.
Emit(cv, instruction) ==
    LET hits == {i \in 1..Len(cv.blocks) : cv.blocks[i].id = cv.current_block}
    IN  IF hits = {} THEN cv
        ELSE LET first == CHOOSE i \in hits : \A j \in hits : i <= j
             IN  [cv EXCEPT !.blocks[first].instructions = Append(@, instruction)]

CreateBlock(cv) ==
    LET f == FreshBlock(cv)
    IN  [id |-> f.id,
         cv |-> [f.cv EXCEPT !.blocks = Append(@, BasicBlock_new(f.id))]]

\* A set_current_block that leaves the current block where it is.
SetCurrentBlockKept(cv, id) == cv

SetCurrentBlock(cv, id) == [cv EXCEPT !.current_block = id]

\* What a conversion step hands back: the converter and the caller's stack.
Out(cv, st) == [cv |-> cv, stack |-> st]

\* A convert_binary_op that takes the top of the stack as its left operand.
ConvertBinaryOpTopIsLeft(cv, bop, st) ==
    IF Len(st) < 2
    THEN Out(Fail(cv, StackUnderflow(bop, 2, Len(st)),
                  Seen(st, st, st, cv.blocks)), st)
    ELSE LET left == st[Len(st)]
             right == st[Len(st) - 1]
             f == FreshRegister(cv)
         IN  Out(Emit(f.cv, BinaryOp(f.reg, bop, left, right)),
                 Append(SubSeq(st, 1, Len(st) - 2), f.reg))

\* A convert_binary_op that pops its right operand before it looks at the
\* length of the stack.
ConvertBinaryOpPopFirst(cv, bop, st) ==
    IF st = <<>>
    THEN Out(Fail(cv, StackUnderflow(bop, 2, 0),
                  Seen(st, st, st, cv.blocks)), st)
    ELSE IF Len(st) < 2
    THEN Out(Fail(cv, StackUnderflow(bop, 2, Len(st)),
                  Seen(st, st, Front(st), cv.blocks)), Front(st))
    ELSE LET right == st[Len(st)]
             left == st[Len(st) - 1]
             f == FreshRegister(cv)
         IN  Out(Emit(f.cv, BinaryOp(f.reg, bop, left, right)),
                 Append(SubSeq(st, 1, Len(st) - 2), f.reg))

ConvertBinaryOp(cv, bop, st) ==
    IF Len(st) < 2
    THEN Out(Fail(cv, StackUnderflow(bop, 2, Len(st)),
                  Seen(st, st, st, cv.blocks)), st)
    ELSE LET right == st[Len(st)]
             left == st[Len(st) - 1]
             f == FreshRegister(cv)
         IN  Out(Emit(f.cv, BinaryOp(f.reg, bop, left, right)),
                 Append(SubSeq(st, 1, Len(st) - 2), f.reg))

ConvertUnaryOp(cv, uop, st) ==
    IF st = <<>>
    THEN Out(Fail(cv, StackUnderflow(uop, 1, 0), Seen(st, st, st, cv.blocks)), st)
    ELSE LET f == FreshRegister(cv)
         IN  Out(Emit(f.cv, UnaryOp(f.reg, uop, Last(st))),
                 Append(Front(st), f.reg))

ConvertWordCall(cv, name, st) ==
    LET len == Len(st)
        underflow(n, found) ==
            Out(Fail(cv, StackUnderflow(name, n, found), Seen(st, st, st, cv.blocks)), st)
    IN
    CASE name \in DOMAIN BinaryOperator ->
            ConvertBinaryOp(cv, BinaryOperator[name], st)
      [] name \in DOMAIN UnaryOperator ->
            ConvertUnaryOp(cv, UnaryOperator[name], st)
      [] name = "dup" ->
            IF len = 0 THEN underflow(1, 0) ELSE Out(cv, Append(st, Last(st)))
      [] name = "drop" ->
            IF len = 0 THEN underflow(1, 0) ELSE Out(cv, Front(st))
      [] name = "swap" ->
            IF len < 2 THEN underflow(2, len)
            ELSE Out(cv, [st EXCEPT ![len - 1] = st[len], ![len] = st[len - 1]])
      [] name = "over" ->
            IF len < 2 THEN underflow(2, len) ELSE Out(cv, Append(st, st[len - 1]))
      [] name = "rot" ->
            IF len < 3 THEN underflow(3, len)
            ELSE Out(cv, [st EXCEPT ![len - 2] = st[len - 1],
                                    ![len - 1] = st[len],
                                    ![len] = st[len - 2]])
      [] name = "@" ->
            IF len = 0 THEN underflow(1, 0)
            ELSE LET f == FreshRegister(cv)
                 IN  Out(Emit(f.cv, Load(f.reg, Last(st))), Append(Front(st), f.reg))
      [] name = "!" ->
            IF len < 2 THEN underflow(2, len)
            ELSE Out(Emit(cv, Store(st[len], st[len - 1])), SubSeq(st, 1, len - 2))
      [] name = ">r" ->
            LET f == FreshRegister(cv)
            IN  IF len = 0
                THEN Out(Fail(f.cv, StackUnderflow(name, 1, 0), Seen(st, st, st, cv.blocks)), st)
                ELSE Out(Emit(f.cv, Call(<<f.reg>>, name, <<Last(st)>>)), Front(st))
      [] name \in {"r>", "r@"} ->
            LET f == FreshRegister(cv)
            IN  Out(Emit(f.cv, Call(<<f.reg>>, name, <<>>)), Append(st, f.reg))
      [] name \in {".", "emit", "cr"} ->
            IF len = 0 THEN underflow(1, 0)
            ELSE Out(Emit(cv, Call(<<>>, name, <<Last(st)>>)), Front(st))
      [] name \in {"i", "j"} ->
            LET f == FreshRegister(cv)
            IN  Out(Emit(f.cv, Call(<<f.reg>>, name, <<>>)), Append(st, f.reg))
      [] name \in {"execute", "char"} ->
            LET f == FreshRegister(cv)
                pops == name = "execute" /\ len > 0
                args == IF pops THEN <<Last(st)>> ELSE <<>>
                rest == IF pops THEN Front(st) ELSE st
            IN  Out(Emit(f.cv, Call(<<f.reg>>, name, args)), Append(rest, f.reg))
      [] OTHER ->
            LET f == FreshRegister(cv)
            IN  Out(Emit(f.cv, Call(<<f.reg>>, name, <<>>)), Append(st, f.reg))


RECURSIVE ConvertSequence(_, _, _)

\* `let value = ...;` followed by the statements In that use it.
With(value, In(_)) == In(value)

\* A convert_if whose else-branch goes on from the stack the then-branch
\* left instead of a clone of the stack before the branch.
ConvertIfSharedStack(cv, then_branch, else_branch, has_else, st) ==
    IF st = <<>>
    THEN Out(Fail(cv, StackUnderflow("IF", 1, 0),
                  Seen(st, st, st, cv.blocks)), st)
    ELSE
    With(CreateBlock(cv), LAMBDA then_block :
    With(CreateBlock(then_block.cv), LAMBDA merge_block :
    With(IF has_else THEN CreateBlock(merge_block.cv) ELSE merge_block,
         LAMBDA else_block :
    With(ConvertSequence(
             SetCurrentBlock(
                 Emit(else_block.cv,
                      Branch(Last(st), then_block.id, else_block.id)),
                 then_block.id),
             then_branch, Front(st)),
         LAMBDA t :
    IF Failed(t.cv) THEN Out(t.cv, Front(st))
    ELSE IF ~has_else
    THEN Out(SetCurrentBlock(Emit(t.cv, Jump(merge_block.id)), merge_block.id),
             t.stack)
    ELSE
    With(ConvertSequence(
             SetCurrentBlock(Emit(t.cv, Jump(merge_block.id)), else_block.id),
             else_branch, t.stack),
         LAMBDA e :
    IF Failed(e.cv) THEN Out(e.cv, Front(st))
    ELSE Out(SetCurrentBlock(Emit(e.cv, Jump(merge_block.id)), merge_block.id),
             t.stack))))))

\* A convert_if that goes on after the merge with the stack the else-branch
\* left.
ConvertIfElseStack(cv, then_branch, else_branch, has_else, st) ==
    IF st = <<>>
    THEN Out(Fail(cv, StackUnderflow("IF", 1, 0),
                  Seen(st, st, st, cv.blocks)), st)
    ELSE
    With(CreateBlock(cv), LAMBDA then_block :
    With(CreateBlock(then_block.cv), LAMBDA merge_block :
    With(IF has_else THEN CreateBlock(merge_block.cv) ELSE merge_block,
         LAMBDA else_block :
    With(ConvertSequence(
             SetCurrentBlock(
                 Emit(else_block.cv,
                      Branch(Last(st), then_block.id, else_block.id)),
                 then_block.id),
             then_branch, Front(st)),
         LAMBDA t :
    IF Failed(t.cv) THEN Out(t.cv, Front(st))
    ELSE IF ~has_else
    THEN Out(SetCurrentBlock(Emit(t.cv, Jump(merge_block.id)), merge_block.id),
             t.stack)
    ELSE
    With(ConvertSequence(
             SetCurrentBlock(Emit(t.cv, Jump(merge_block.id)), else_block.id),
             else_branch, Front(st)),
         LAMBDA e :
    IF Failed(e.cv) THEN Out(e.cv, Front(st))
    ELSE Out(SetCurrentBlock(Emit(e.cv, Jump(merge_block.id)), merge_block.id),
             e.stack))))))

ConvertIf(cv, then_branch, else_branch, has_else, st) ==
    IF st = <<>>
    THEN Out(Fail(cv, StackUnderflow("IF", 1, 0),
                  Seen(st, st, st, cv.blocks)), st)
    ELSE
    \* the condition is Last(st); Front(st) is the stack without it
    With(CreateBlock(cv), LAMBDA then_block :
    With(CreateBlock(then_block.cv), LAMBDA merge_block :
    With(IF has_else THEN CreateBlock(merge_block.cv) ELSE merge_block,
         LAMBDA else_block :
    \* the Branch, then the then branch from a clone of the stack
    With(ConvertSequence(
             SetCurrentBlock(
                 Emit(else_block.cv,
                      Branch(Last(st), then_block.id, else_block.id)),
                 then_block.id),
             then_branch, Front(st)),
         LAMBDA t :
    IF Failed(t.cv) THEN Out(t.cv, Front(st))
    ELSE IF ~has_else
    THEN Out(SetCurrentBlock(Emit(t.cv, Jump(merge_block.id)), merge_block.id),
             t.stack)
    ELSE
    \* the else branch from another clone of the stack
    With(ConvertSequence(
             SetCurrentBlock(Emit(t.cv, Jump(merge_block.id)), else_block.id),
             else_branch, Front(st)),
         LAMBDA e :
    IF Failed(e.cv) THEN Out(e.cv, Front(st))
    ELSE Out(SetCurrentBlock(Emit(e.cv, Jump(merge_block.id)), merge_block.id),
             t.stack))))))

\* A convert_begin_until whose back edge goes to the block that is current
\* when the body has been translated.
ConvertBeginUntilBackToCurrent(cv, body, st) ==
    With(CreateBlock(cv), LAMBDA loop_block :
    With(CreateBlock(loop_block.cv), LAMBDA exit_block :
    With(ConvertSequence(
             SetCurrentBlock(Emit(exit_block.cv, Jump(loop_block.id)),
                             loop_block.id),
             body, st),
         LAMBDA l :
    IF Failed(l.cv) THEN Out(l.cv, st)
    ELSE IF l.stack = <<>>
    THEN Out(Fail(l.cv, StackUnderflow("UNTIL", 1, 0),
                  Seen(l.stack, st, st, cv.blocks)), st)
    ELSE Out(SetCurrentBlock(
                 Emit(l.cv, Branch(Last(l.stack), exit_block.id,
                                   l.cv.current_block)),
                 exit_block.id),
             Front(l.stack)))))

ConvertBeginUntil(cv, body, st) ==
    With(CreateBlock(cv), LAMBDA loop_block :
    With(CreateBlock(loop_block.cv), LAMBDA exit_block :
    With(ConvertSequence(
             SetCurrentBlock(Emit(exit_block.cv, Jump(loop_block.id)),
                             loop_block.id),
             body, st),
         LAMBDA l :
    IF Failed(l.cv) THEN Out(l.cv, st)
    ELSE IF l.stack = <<>>
    THEN Out(Fail(l.cv, StackUnderflow("UNTIL", 1, 0),
                  Seen(l.stack, st, st, cv.blocks)), st)
    ELSE Out(SetCurrentBlock(
                 Emit(l.cv, Branch(Last(l.stack), exit_block.id, loop_block.id)),
                 exit_block.id),
             Front(l.stack)))))

\* A convert_begin_while_repeat that goes on after the loop with the stack
\* the body left.
ConvertBeginWhileRepeatBodyStack(cv, condition, body, st) ==
    With(CreateBlock(cv), LAMBDA cond_block :
    With(CreateBlock(cond_block.cv), LAMBDA body_block :
    With(CreateBlock(body_block.cv), LAMBDA exit_block :
    With(ConvertSequence(
             SetCurrentBlock(Emit(exit_block.cv, Jump(cond_block.id)),
                             cond_block.id),
             condition, st),
         LAMBDA c :
    IF Failed(c.cv) THEN Out(c.cv, st)
    ELSE IF c.stack = <<>>
    THEN Out(Fail(c.cv, StackUnderflow("WHILE", 1, 0),
                  Seen(c.stack, st, st, cv.blocks)), st)
    ELSE
    With(ConvertSequence(
             SetCurrentBlock(
                 Emit(c.cv, Branch(Last(c.stack), body_block.id, exit_block.id)),
                 body_block.id),
             body, Front(c.stack)),
         LAMBDA b :
    IF Failed(b.cv) THEN Out(b.cv, st)
    ELSE Out(SetCurrentBlock(Emit(b.cv, Jump(cond_block.id)), exit_block.id),
             b.stack))))))

ConvertBeginWhileRepeat(cv, condition, body, st) ==
    With(CreateBlock(cv), LAMBDA cond_block :
    With(CreateBlock(cond_block.cv), LAMBDA body_block :
    With(CreateBlock(body_block.cv), LAMBDA exit_block :
    With(ConvertSequence(
             SetCurrentBlock(Emit(exit_block.cv, Jump(cond_block.id)),
                             cond_block.id),
             condition, st),
         LAMBDA c :
    IF Failed(c.cv) THEN Out(c.cv, st)
    ELSE IF c.stack = <<>>
    THEN Out(Fail(c.cv, StackUnderflow("WHILE", 1, 0),
                  Seen(c.stack, st, st, cv.blocks)), st)
    ELSE
    \* cond_val is Last(c.stack); Front(c.stack) is cond_stack
    With(ConvertSequence(
             SetCurrentBlock(
                 Emit(c.cv, Branch(Last(c.stack), body_block.id, exit_block.id)),
                 body_block.id),
             body, Front(c.stack)),
         LAMBDA b :
    IF Failed(b.cv) THEN Out(b.cv, st)
    ELSE Out(SetCurrentBlock(Emit(b.cv, Jump(cond_block.id)), exit_block.id),
             Front(c.stack)))))))

\* A convert_do_loop that ends the body with a Jump back to the loop block.
ConvertDoLoopBackEdge(cv, body, st) ==
    IF Len(st) < 2
    THEN Out(Fail(cv, StackUnderflow("DO", 2, Len(st)),
                  Seen(st, st, st, cv.blocks)), st)
    ELSE
    With(CreateBlock(cv), LAMBDA loop_block :
    With(CreateBlock(loop_block.cv), LAMBDA exit_block :
    With(ConvertSequence(
             SetCurrentBlock(Emit(exit_block.cv, Jump(loop_block.id)),
                             loop_block.id),
             body, SubSeq(st, 1, Len(st) - 2)),
         LAMBDA l :
    IF Failed(l.cv) THEN Out(l.cv, SubSeq(st, 1, Len(st) - 2))
    ELSE Out(SetCurrentBlock(Emit(l.cv, Jump(loop_block.id)), exit_block.id),
             l.stack))))

ConvertDoLoop(cv, body, st) ==
    IF Len(st) < 2
    THEN Out(Fail(cv, StackUnderflow("DO", 2, Len(st)),
                  Seen(st, st, st, cv.blocks)), st)
    ELSE
    \* limit and start are popped
    With(CreateBlock(cv), LAMBDA loop_block :
    With(CreateBlock(loop_block.cv), LAMBDA exit_block :
    With(ConvertSequence(
             SetCurrentBlock(Emit(exit_block.cv, Jump(loop_block.id)),
                             loop_block.id),
             body, SubSeq(st, 1, Len(st) - 2)),
         LAMBDA l :
    IF Failed(l.cv) THEN Out(l.cv, SubSeq(st, 1, Len(st) - 2))
    ELSE Out(SetCurrentBlock(Emit(l.cv, Jump(exit_block.id)), exit_block.id),
             l.stack))))

ConvertWord(cv, word, st) ==
    CASE word.kind \in {"IntLiteral", "Constant"} ->
            LET f == FreshRegister(cv)
            IN  Out(Emit(f.cv, LoadInt(f.reg, word.value)), Append(st, f.reg))
      [] word.kind = "WordRef" -> ConvertWordCall(cv, word.name, st)
      [] word.kind = "If" ->
            ConvertIf(cv, word.then_branch, word.else_branch, word.has_else, st)
      [] word.kind = "BeginUntil" -> ConvertBeginUntil(cv, word.body, st)
      [] word.kind = "BeginWhileRepeat" ->
            ConvertBeginWhileRepeat(cv, word.condition, word.body, st)
      [] word.kind = "DoLoop" -> ConvertDoLoop(cv, word.body, st)
      [] word.kind = "Variable" ->
            \* a fresh register is pushed; no instruction defines it
            LET f == FreshRegister(cv) IN Out(f.cv, Append(st, f.reg))
      [] word.kind = "Comment" -> Out(cv, st)

ConvertSequence(cv, words, st) ==
    IF words = <<>> THEN Out(cv, st)
    ELSE With(ConvertWord(cv, Head(words), st), LAMBDA r :
             IF Failed(r.cv) THEN r
             ELSE ConvertSequence(r.cv, Tail(words), r.stack))

\* A convert_definition that emits the Return into the entry block.
ConvertDefinitionReturnInEntry(cv, def) ==
    With(CreateBlock([cv EXCEPT !.next_register = def.param_count,
                                !.handed = <<>>]),
         LAMBDA entry :
    With(ConvertSequence(SetCurrentBlock(entry.cv, entry.id), def.body,
                         SSAFunction_new(def.name, def.param_count).parameters),
         LAMBDA r :
    IF Failed(r.cv)
    THEN [cv |-> r.cv, stack |-> r.stack,
          function |-> SSAFunction_new(def.name, def.param_count)]
    ELSE
    With(SetCurrentBlock(
             Emit(SetCurrentBlock(r.cv, entry.id), Return(r.stack)),
             r.cv.current_block),
         LAMBDA c1 :
    [cv |-> [c1 EXCEPT !.blocks = <<>>],
     stack |-> r.stack,
     function |-> [SSAFunction_new(def.name, def.param_count)
                       EXCEPT !.blocks = c1.blocks]])))

\* convert_definition: `function` is the SSAFunction handed back when the
\* body was translated (cv.err is then None), `stack` its local stack.  On
\* Ok the converter's blocks have moved into the function.
ConvertDefinition(cv, def) ==
    \* next_register restarts at param_count; the entry block is created
    With(CreateBlock([cv EXCEPT !.next_register = def.param_count,
                                !.handed = <<>>]),
         LAMBDA entry :
    \* the body, from a stack holding the parameters
    With(ConvertSequence(SetCurrentBlock(entry.cv, entry.id), def.body,
                         SSAFunction_new(def.name, def.param_count).parameters),
         LAMBDA r :
    IF Failed(r.cv)
    THEN [cv |-> r.cv, stack |-> r.stack,
          function |-> SSAFunction_new(def.name, def.param_count)]
    ELSE
    With(Emit(r.cv, Return(r.stack)), LAMBDA c1 :
    [cv |-> [c1 EXCEPT !.blocks = <<>>],
     stack |-> r.stack,
     function |-> [SSAFunction_new(def.name, def.param_count)
                       EXCEPT !.blocks = c1.blocks]])))

-----------------------------------------------------------------------------
(***************************************************************************)
(* The flat IR of the optimizer: Instruction, WordDef, ForthIR, and the    *)
(* OptimizationLevel.                                                      *)
(***************************************************************************)

Instruction_Literal(v) == [op |-> "Literal", value |-> v]
Instruction_Dup == [op |-> "Dup"]
Instruction_Add == [op |-> "Add"]
Instruction_Sub == [op |-> "Sub"]
Instruction_Mul == [op |-> "Mul"]
Instruction_Gt == [op |-> "Gt"]
Instruction_Call(name) == [op |-> "Call", name |-> name]

WordDef_new(name, instructions) ==
    [name |-> name, instructions |-> instructions, is_inline |-> FALSE]

ForthIR_new == [words |-> <<>>, main |-> <<>>]

add_word(x, word) == [x EXCEPT !.words = Append(@, word)]

\* None < Basic < Standard < Aggressive (the derived Ord).
OptimizationLevel ==
    ("None" :> 0) @@ ("Basic" :> 1) @@ ("Standard" :> 2) @@ ("Aggressive" :> 3)

-----------------------------------------------------------------------------
(***************************************************************************)
(* A subsystem that is not running.                                        *)
(***************************************************************************)

SSAIdle ==
    /\ program = <<>>
    /\ def_index = 1
    /\ converter = SSAConverter_new
    /\ functions = <<>>
    /\ stack = <<>>
    /\ ssa_pc = "idle"

InputIdle == ir = ForthIR_new /\ level = "None"

InlineIdle == frames = <<>> /\ out = <<>> /\ inlined = 0 /\ inl_pc = "idle"

OptIdle == opt_ir = ForthIR_new /\ opt_passes = <<>> /\ opt_pc = "idle"

FixIdle ==
    /\ fix_current = ForthIR_new
    /\ fix_iterations = 0
    /\ fix_result = ForthIR_new
    /\ fix_pc = "idle"

\* A ratio of two counts; `wrapped` tells that the numerator is the
\* subtraction's result modulo 2^64 (the width of usize), that is
\* num + 2^64.
Ratio(num, den, wrapped) == [num |-> num, den |-> den, wrapped |-> wrapped]

Zero == Ratio(0, 1, FALSE)

CompilationStats(before, after) ==
    [instructions_before |-> before, instructions_after |-> after]

StatsIdle ==
    /\ stats = CompilationStats(0, 0)
    /\ savings = Zero
    /\ stats_pc = "idle"

LowerIdle == lower_ir = ForthIR_new /\ lower_index = 1 /\ lower_pc = "idle"

ParseIdle ==
    /\ tokens = <<>>
    /\ position = 0
    /\ pending_value = "None"
    /\ active = <<>>
    /\ parse_pc = "idle"

NoAnswer == [query |-> "none", caller |-> "", callee |-> "", value |-> <<>>]

GraphIdle ==
    /\ call_graph = <<>>
    /\ cycles = <<>>
    /\ answer = NoAnswer
    /\ graph_pc = "idle"

MoreIdle == StatsIdle /\ LowerIdle /\ ParseIdle /\ GraphIdle

\* A step of one subsystem leaves the others alone.
SSAOnly == UNCHANGED <<inputVars, inlVars, optVars, fixVars, moreVars>>

InlineOnly == UNCHANGED <<ssaVars, inputVars, optVars, fixVars, moreVars>>

OptOnly == UNCHANGED <<ssaVars, inputVars, inlVars, fixVars, moreVars>>

FixOnly == UNCHANGED <<ssaVars, inputVars, inlVars, optVars, moreVars>>

\* The variables of the front end and of the optimizer.
coreVars == <<ssaVars, inputVars, inlVars, optVars, fixVars>>

CoreIdle == SSAIdle /\ InputIdle /\ InlineIdle /\ OptIdle /\ FixIdle

StatsOnly == UNCHANGED <<coreVars, lowerVars, parseVars, graphVars>>

LowerOnly == UNCHANGED <<coreVars, statsVars, parseVars, graphVars>>

ParseOnly == UNCHANGED <<coreVars, statsVars, lowerVars, graphVars>>

GraphOnly == UNCHANGED <<ssaVars, inlVars, optVars, fixVars, statsVars, lowerVars, parseVars>>

-----------------------------------------------------------------------------
(***************************************************************************)
(* convert_to_ssa.                                                         *)
(***************************************************************************)

RECURSIVE IsProgram(_, _, _)

\* p is defs followed by definitions of at most n nodes in all (a definition
\* counts for one node, and so does each word of its body).
IsProgram(p, defs, n) ==
    \/ p = defs
    \/ \E k \in 1..n : \E params \in 0..MaxParams : \E body \in Bodies[k - 1] :
          IsProgram(p, Append(defs, Definition(DefName(Len(defs) + 1), params, body)),
                    n - k)

\* Sequences of at most n leaf words.
LeafSeqs(n) == UNION {[1..k -> Leaves] : k \in 0..n}

\* p is one definition `: w1 ... IF t ELSE e THEN ;` with both branches
\* non-empty sequences of at most MaxBranchLen leaf words.
IsIfElseProgram(p) ==
    \E params \in 0..MaxParams :
        \E t \in LeafSeqs(MaxBranchLen) \ {<<>>} :
            \E e \in LeafSeqs(MaxBranchLen) \ {<<>>} :
                p = <<Definition(DefName(1), params, <<If(t, e, TRUE)>>)>>

\* The leaf words that push one register, pop one, or push a copy.
DepthLeaves == {IntLiteral(1), WordRef("drop"), WordRef("dup")}

\* p is one definition `: w1 ... IF t ELSE e THEN x ;` with t and e one
\* word of DepthLeaves or nothing, and x one leaf word.
IsIfTailProgram(p) ==
    \E params \in 0..MaxParams :
        \E t \in {<<>>} \cup {<<w>> : w \in DepthLeaves} :
            \E e \in {<<>>} \cup {<<w>> : w \in DepthLeaves} :
                \E x \in Leaves :
                    p = <<Definition(DefName(1), params, <<If(t, e, TRUE), x>>)>>

\* convert_to_ssa is entered with one of the programs of the model.
EnterConvertToSSA ==
    /\ \/ IsProgram(program, <<>>, MaxProgramSize)
       \/ IsIfElseProgram(program)
       \/ IsIfTailProgram(program)
    /\ def_index = 1
    /\ converter = SSAConverter_new
    /\ functions = <<>>
    /\ stack = <<>>
    /\ ssa_pc = "loop"

InitSSA ==
    /\ EnterConvertToSSA
    /\ InputIdle /\ InlineIdle /\ OptIdle /\ FixIdle /\ MoreIdle

\* One turn of `for def in &program.definitions`: the definition is
\* converted and its function pushed, or the error is returned.
ConvertNextDefinition ==
    /\ ssa_pc = "loop"
    /\ def_index <= Len(program)
    /\ LET r == ConvertDefinition(converter, program[def_index])
       IN  /\ converter' = r.cv
           /\ stack' = r.stack
           /\ IF Failed(r.cv)
              THEN /\ ssa_pc' = "err"
                   /\ UNCHANGED <<functions, def_index>>
              ELSE /\ functions' = Append(functions, r.function)
                   /\ def_index' = def_index + 1
                   /\ ssa_pc' = "loop"
    /\ UNCHANGED program
    /\ SSAOnly

\* The loop is over: Ok(functions).
ReturnFunctions ==
    /\ ssa_pc = "loop"
    /\ def_index > Len(program)
    /\ ssa_pc' = "ok"
    /\ UNCHANGED <<program, def_index, converter, functions, stack>>
    /\ SSAOnly

NextSSA == ConvertNextDefinition \/ ReturnFunctions

SpecSSA == InitSSA /\ [][NextSSA]_vars

-----------------------------------------------------------------------------
(***************************************************************************)
(* Reading the functions convert_to_ssa built.                             *)
(***************************************************************************)

Range(q) == {q[i] : i \in 1..Len(q)}

Min(a, b) == IF a < b THEN a ELSE b

\* The registers an instruction writes, and the registers it reads.
Dests(ins) ==
    CASE ins.op \in {"LoadInt", "BinaryOp", "UnaryOp", "Load", "Phi"} ->
            {ins.dest}
      [] ins.op = "Call" -> Range(ins.dest)
      [] OTHER -> {}

Uses(ins) ==
    CASE ins.op = "BinaryOp" -> {ins.left, ins.right}
      [] ins.op = "UnaryOp" -> {ins.operand}
      [] ins.op = "Call" -> Range(ins.args)
      [] ins.op = "Branch" -> {ins.condition}
      [] ins.op = "Return" -> Range(ins.values)
      [] ins.op = "Load" -> {ins.address}
      [] ins.op = "Store" -> {ins.address, ins.value}
      [] ins.op = "Phi" -> {pair[2] : pair \in Range(ins.incoming)}
      [] OTHER -> {}

Targets(ins) ==
    CASE ins.op = "Branch" -> {ins.true_block, ins.false_block}
      [] ins.op = "Jump" -> {ins.target}
      [] OTHER -> {}

\* <<b, i>>: the i-th instruction of the b-th block.
Positions(blocks) ==
    UNION {{<<b, i>> : i \in 1..Len(blocks[b].instructions)} :
           b \in 1..Len(blocks)}

At(blocks, pos) == blocks[pos[1]].instructions[pos[2]]

RECURSIVE Emitted(_)
\* How many instructions the blocks hold.
Emitted(blocks) ==
    IF blocks = <<>> THEN 0
    ELSE Len(Head(blocks).instructions) + Emitted(Tail(blocks))

BlockIds(fn) == {fn.blocks[b].id : b \in 1..Len(fn.blocks)}

\* The instructions of the block of that id (none when there is no such
\* block).
InstructionsOf(fn, id) ==
    LET hits == {b \in 1..Len(fn.blocks) : fn.blocks[b].id = id}
    IN  IF hits = {} THEN <<>>
        ELSE fn.blocks[CHOOSE b \in hits : \A c \in hits : b <= c].instructions

\* The block the first instructions of the body were emitted into.
FirstBlock(fn) == fn.blocks[1].id

BlockDests(fn, id) == UNION {Dests(ins) : ins \in Range(InstructionsOf(fn, id))}

Preds(fn, id) ==
    {p \in BlockIds(fn) :
        \E ins \in Range(InstructionsOf(fn, p)) : id \in Targets(ins)}

AllRegisters(fn) ==
    Range(fn.parameters)
    \cup UNION {Dests(At(fn.blocks, pos)) \cup Uses(At(fn.blocks, pos)) :
                pos \in Positions(fn.blocks)}

\* One round of the forward must-analysis: the registers defined on every
\* path from the first block to the start of each block.
DefinedStep(fn, in) ==
    [id \in BlockIds(fn) |->
        IF id = FirstBlock(fn) THEN Range(fn.parameters)
        ELSE {r \in AllRegisters(fn) :
                \A p \in Preds(fn, id) : r \in in[p] \cup BlockDests(fn, p)}]

RECURSIVE DefinedIter(_, _, _)
DefinedIter(fn, in, n) ==
    IF n = 0 THEN in ELSE DefinedIter(fn, DefinedStep(fn, in), n - 1)

\* The greatest fixpoint, reached in at most one round per block.
DefinedAtEntry(fn) ==
    DefinedIter(fn, [id \in BlockIds(fn) |-> AllRegisters(fn)],
                Len(fn.blocks) + 1)

DefinedBefore(fn, pos) ==
    DefinedAtEntry(fn)[fn.blocks[pos[1]].id]
    \cup UNION {Dests(fn.blocks[pos[1]].instructions[j]) : j \in 1..(pos[2] - 1)}

\* A converter with one empty block, handing out registers from reg on:
\* what a flat sequence of words translates to on its own.
Scratch(reg) ==
    [SSAConverter_new EXCEPT !.next_register = reg, !.next_block = 1,
                             !.blocks = <<BasicBlock_new(0)>>]

Translated(words, st, reg) == ConvertSequence(Scratch(reg), words, st)

Flat(words) ==
    \A i \in 1..Len(words) :
        words[i].kind \in {"IntLiteral", "WordRef", "Variable"}

\* The converted definitions whose body is one IF with flat branches.
IfDefinitions ==
    {i \in 1..Len(functions) :
        /\ Len(program[i].body) = 1
        /\ program[i].body[1].kind = "If"
        /\ Flat(program[i].body[1].then_branch)
        /\ Flat(program[i].body[1].else_branch)}

\* The definition the converter worked on last.
LastParamCount ==
    IF ssa_pc = "err" THEN program[def_index].param_count
    ELSE IF def_index > 1 THEN program[def_index - 1].param_count
    ELSE 0

-----------------------------------------------------------------------------
(***************************************************************************)
(* Properties of SSA construction.                                         *)
(***************************************************************************)

\* C4: in every function built, each register an instruction reads is a
\* parameter or the destination of an instruction that executes earlier on
\* every path from the entry to that read.
NoUseBeforeDefinition ==
    \A k \in 1..Len(functions) :
        \A pos \in Positions(functions[k].blocks) :
            Uses(At(functions[k].blocks, pos))
                \subseteq DefinedBefore(functions[k], pos)

\* C5: within a function every register is the destination of at most one
\* instruction, no destination is a parameter register, and the registers
\* handed out for one definition are param_count, param_count + 1, ... in
\* that order.
RegistersWriteOnce ==
    /\ \A k \in 1..Len(functions) :
          LET blocks == functions[k].blocks
          IN  /\ \A p \in Positions(blocks) : \A q \in Positions(blocks) :
                    p # q => Dests(At(blocks, p)) \cap Dests(At(blocks, q)) = {}
              /\ \A p \in Positions(blocks) :
                    /\ Dests(At(blocks, p)) \cap Range(functions[k].parameters) = {}
                    /\ At(blocks, p).op = "Call" =>
                          Cardinality(Range(At(blocks, p).dest))
                              = Len(At(blocks, p).dest)
    /\ \A i \in 1..Len(converter.handed) :
          converter.handed[i] = LastParamCount + i - 1

\* A definition with parameters was converted and two instructions of its
\* function write a register.
TwoRegistersWritten ==
    /\ ssa_pc = "ok"
    /\ \E k \in 1..Len(functions) :
          /\ Len(functions[k].parameters) > 0
          /\ Cardinality({p \in Positions(functions[k].blocks) :
                             Dests(At(functions[k].blocks, p)) # {}}) >= 2

\* C6: every function returned has entry_block 0, and a block of that id is
\* in the function's own block list.
EntryBlockInFunction ==
    \A k \in 1..Len(functions) :
        /\ functions[k].entry_block = 0
        /\ functions[k].entry_block \in BlockIds(functions[k])

\* What the constructs of C7 need, by the word the error names.
Needs ==
    [w \in {BinaryOperator[i] : i \in DOMAIN BinaryOperator} |-> 2]
    @@ [w \in {UnaryOperator[i] : i \in DOMAIN UnaryOperator} |-> 1]
    @@ ("dup" :> 1) @@ ("drop" :> 1) @@ ("swap" :> 2) @@ ("over" :> 2)
    @@ ("rot" :> 3) @@ ("@" :> 1) @@ ("!" :> 2) @@ ("IF" :> 1)
    @@ ("UNTIL" :> 1) @@ ("WHILE" :> 1) @@ ("DO" :> 2)

\* What the first word of a body needs of the parameters.
FirstNeeds(word) ==
    CASE word.kind = "WordRef" /\ word.name \in DOMAIN BinaryOperator -> 2
      [] word.kind = "WordRef" /\ word.name \in DOMAIN UnaryOperator -> 1
      [] word.kind = "WordRef" /\ word.name \in DOMAIN Needs -> Needs[word.name]
      [] word.kind = "If" -> 1
      [] word.kind = "DoLoop" -> 2
      [] word.kind = "BeginUntil" /\ word.body = <<>> -> 1
      [] word.kind = "BeginWhileRepeat" /\ word.condition = <<>> -> 1
      [] OTHER -> 0

\* The underflow was raised by one of the constructs of C7.
UnderflowReturned ==
    /\ ssa_pc = "err"
    /\ converter.err.kind = "StackUnderflow"
    /\ converter.err.word \in DOMAIN Needs

\* The error carries expected = n and found = k < n, the caller's stack is
\* as it was, and no function is returned for the definition.
UnderflowReported ==
    /\ converter.err.expected = Needs[converter.err.word]
    /\ converter.err.found = Len(converter.seen.short)
    /\ converter.err.found < converter.err.expected
    /\ converter.seen.stack_at = converter.seen.stack_in
    /\ Len(functions) = def_index - 1

\* A body whose first word needs more than the parameters is not converted.
ShortStackFails ==
    \A i \in 1..Len(functions) :
        program[i].body # <<>> =>
            program[i].param_count >= FirstNeeds(Head(program[i].body))

\* C7 (as stated): an underflow carries expected = n and found = k, leaves
\* the caller's stack as it was, returns the error instead of a function,
\* and no instruction is emitted for the failing construct.
UnderflowEmitsNothing ==
    /\ ShortStackFails
    /\ UnderflowReturned =>
          /\ UnderflowReported
          /\ Emitted(converter.blocks) = Emitted(converter.seen.blocks_in)

\* C7 (amended): as above, but only the constructs other than UNTIL and
\* WHILE have emitted nothing; UNTIL and WHILE raise the underflow after the
\* Jump into their loop or condition block (and whatever the words in front
\* of UNTIL or WHILE translate to) has been emitted.
UnderflowEmitsNothingButLoops ==
    /\ ShortStackFails
    /\ UnderflowReturned =>
          /\ UnderflowReported
          /\ IF converter.err.word \in {"UNTIL", "WHILE"}
             THEN Emitted(converter.blocks) > Emitted(converter.seen.blocks_in)
             ELSE converter.blocks = converter.seen.blocks_in

\* A binary operator found one value where it needs two.
BinaryOperatorUnderflow ==
    /\ UnderflowReturned
    /\ converter.err.word = "add"
    /\ converter.err.found = 1

\* C8: a converted definition has exactly one Return; it is the last
\* instruction of the block current at the end of the body, its operands
\* are the stack bottom to top, and for an empty body they are the
\* parameters.
OneReturnOfStack ==
    /\ \A k \in 1..Len(functions) :
          LET blocks == functions[k].blocks
              returns == {p \in Positions(blocks) : At(blocks, p).op = "Return"}
          IN  /\ Cardinality(returns) = 1
              /\ program[k].body = <<>> =>
                    \A p \in returns :
                        At(blocks, p).values = functions[k].parameters
    /\ (ssa_pc # "err" /\ functions # <<>>) =>
          LET ins == InstructionsOf(Last(functions), converter.current_block)
          IN  /\ ins # <<>>
              /\ Last(ins) = Return(stack)

\* A body with a control structure was converted and left two registers or
\* more on the stack.
ReturnAfterControl ==
    /\ ssa_pc = "ok"
    /\ Len(functions) = 1
    /\ Len(Last(functions).blocks) > 1
    /\ Len(stack) >= 2
    /\ Last(InstructionsOf(Last(functions), converter.current_block))
          = Return(stack)

\* The shape of the function of a definition whose body is one IF.
IfShape(i) ==
    LET w == program[i].body[1]
        fn == functions[i]
        pre == Front(fn.parameters)
        then_id == FirstBlock(fn) + 1
        merge_id == FirstBlock(fn) + 2
        else_id == IF w.has_else THEN FirstBlock(fn) + 3 ELSE merge_id
        t == Translated(w.then_branch, pre, program[i].param_count)
        e == Translated(w.else_branch, pre, t.cv.next_register)
        merge == InstructionsOf(fn, merge_id)
    IN  /\ InstructionsOf(fn, FirstBlock(fn))
              = <<Branch(Last(fn.parameters), then_id, else_id)>>
        /\ InstructionsOf(fn, then_id)
              = t.cv.blocks[1].instructions \o <<Jump(merge_id)>>
        /\ w.has_else =>
              InstructionsOf(fn, else_id)
                  = e.cv.blocks[1].instructions \o <<Jump(merge_id)>>
        /\ Len(fn.blocks) = IF w.has_else THEN 4 ELSE 3
        /\ merge # <<>>
        /\ Last(merge).op = "Return"

\* C9: IF pops the condition, branches on it in the block that was current
\* to the then block and to the else block (the merge block when there is
\* no else), translates each branch from its own copy of the stack before
\* the branch, ends each with a Jump to the merge block, and goes on in the
\* merge block.
IfBuildsDiamond == \A i \in IfDefinitions : IfShape(i)

\* An IF/ELSE was converted whose then-branch changed the stack and whose
\* else-branch read it.
IfElseConverted ==
    /\ ssa_pc = "ok"
    /\ \E i \in IfDefinitions :
          LET w == program[i].body[1]
              pre == Front(functions[i].parameters)
          IN  /\ w.has_else
              /\ w.then_branch # <<>>
              /\ w.else_branch = <<WordRef("negate")>>
              /\ pre # <<>>
              /\ Translated(w.then_branch, pre, program[i].param_count).stack
                    # pre

\* C10: after an IF, every stack slot whose register differs between the
\* two incoming paths has a Phi in the merge block, with one incoming pair
\* per path, and the stack after the merge holds the Phi's destination.
PhiAtMerge ==
    \A i \in IfDefinitions :
        LET w == program[i].body[1]
            fn == functions[i]
            pre == Front(fn.parameters)
            t == Translated(w.then_branch, pre, program[i].param_count)
            e == Translated(w.else_branch, pre, t.cv.next_register)
            then_stack == t.stack
            else_stack == IF w.has_else THEN e.stack ELSE pre
            merge == InstructionsOf(fn, FirstBlock(fn) + 2)
            after == IF merge = <<>> THEN <<>> ELSE Last(merge).values
        IN  \A slot \in 1..Min(Len(then_stack), Len(else_stack)) :
                then_stack[slot] # else_stack[slot] =>
                    \E j \in 1..Len(merge) :
                        /\ merge[j].op = "Phi"
                        /\ Len(merge[j].incoming) = 2
                        /\ {pair[2] : pair \in Range(merge[j].incoming)}
                              = {then_stack[slot], else_stack[slot]}
                        /\ slot <= Len(after)
                        /\ after[slot] = merge[j].dest

\* The converted definitions whose body is one IF with flat branches
\* followed by flat code.
IfTailDefinitions ==
    {i \in 1..Len(functions) :
        /\ program[i].body # <<>>
        /\ program[i].body[1].kind = "If"
        /\ Flat(program[i].body[1].then_branch)
        /\ Flat(program[i].body[1].else_branch)
        /\ Flat(Tail(program[i].body))}

\* The stack each branch of the IF of definition i leaves, and what the
\* code after the IF translates to from the then-branch's stack.
IfStacks(i) ==
    LET w == program[i].body[1]
        pre == Front(functions[i].parameters)
        t == Translated(w.then_branch, pre, program[i].param_count)
        e == Translated(w.else_branch, pre, t.cv.next_register)
    IN  [then_stack |-> t.stack,
         else_stack |-> e.stack,
         after |-> Translated(Tail(program[i].body), t.stack,
                              e.cv.next_register)]

\* C11: after an IF or IF/ELSE the code that follows the merge is translated
\* from the then-branch's resulting stack, the same registers at the same
\* depth, whatever the else-branch left: the merge block holds what the code
\* after the IF translates to from that stack and then the Return of the
\* stack it leaves.
ThenStackAfterMerge ==
    \A i \in IfTailDefinitions :
        LET s == IfStacks(i)
        IN  /\ ~Failed(s.after.cv)
            /\ InstructionsOf(functions[i], FirstBlock(functions[i]) + 2)
                  = s.after.cv.blocks[1].instructions
                        \o <<Return(s.after.stack)>>

\* An IF/ELSE was converted whose branches leave stacks of different depth,
\* with code after it that reads the stack.
BranchDepthsDiffer ==
    /\ ssa_pc = "ok"
    /\ \E i \in IfTailDefinitions :
          /\ program[i].body[1].has_else
          /\ Len(IfStacks(i).then_stack) # Len(IfStacks(i).else_stack)
          /\ Tail(program[i].body) = <<WordRef("negate")>>

\* The converted definitions that begin with a construct of that kind,
\* followed by flat code.
LoopDefinitions(kind) ==
    {i \in 1..Len(functions) :
        /\ program[i].body # <<>>
        /\ program[i].body[1].kind = kind
        /\ Flat(Tail(program[i].body))}

\* A converter that has allocated the entry block `first` and n blocks more,
\* and emits into `current`: where a construct that opens a definition's
\* body starts translating its own body.
ScratchBlocks(first, n, current, reg) ==
    [SSAConverter_new EXCEPT
        !.next_register = reg,
        !.next_block = first + n + 1,
        !.current_block = current,
        !.blocks = [k \in 1..(n + 1) |-> BasicBlock_new(first + k - 1)]]

\* The instructions that jump or branch to the block of that id, as
\* <<block id, instruction>>.
EdgesTo(fn, id) ==
    {<<fn.blocks[pos[1]].id, At(fn.blocks, pos)>> :
        pos \in {q \in Positions(fn.blocks) : id \in Targets(At(fn.blocks, q))}}

\* The exit block of a loop holds what the code after the loop translates
\* to from the stack st, then the Return of the stack that is left.
ResumesIn(fn, exit_id, rest, st, reg) ==
    LET after == Translated(rest, st, reg)
    IN  /\ ~Failed(after.cv)
        /\ InstructionsOf(fn, exit_id)
              = after.cv.blocks[1].instructions \o <<Return(after.stack)>>

\* The shape of the function of a definition that begins with BEGIN...UNTIL.
UntilShape(i) ==
    LET fn == functions[i]
        first == FirstBlock(fn)
        loop_id == first + 1
        exit_id == first + 2
        l == ConvertSequence(
                 ScratchBlocks(first, 2, loop_id, program[i].param_count),
                 program[i].body[1].body, fn.parameters)
        back == Branch(Last(l.stack), exit_id, loop_id)
    IN  /\ InstructionsOf(fn, first) = <<Jump(loop_id)>>
        /\ l.stack # <<>>
        /\ InstructionsOf(fn, l.cv.current_block)
              = InstructionsOf(l.cv, l.cv.current_block) \o <<back>>
        /\ \A b \in BlockIds(l.cv) \ {first, exit_id, l.cv.current_block} :
              InstructionsOf(fn, b) = InstructionsOf(l.cv, b)
        /\ EdgesTo(fn, loop_id)
              = {<<first, Jump(loop_id)>>, <<l.cv.current_block, back>>}
        /\ ResumesIn(fn, exit_id, Tail(program[i].body), Front(l.stack),
                     l.cv.next_register)

\* C12: BEGIN...UNTIL allocates a loop block and an exit block, jumps from
\* the current block to the loop block, translates the body there, pops the
\* condition from the body's stack and ends the body with a Branch to the
\* exit block on true and to the loop block on false, also when the body
\* holds a nested control structure, and goes on in the exit block with the
\* body's stack without the condition.
UntilBuildsLoop == \A i \in LoopDefinitions("BeginUntil") : UntilShape(i)

\* A BEGIN...UNTIL was converted whose body is an IF, so that the Branch of
\* UNTIL is emitted in the merge block of the IF.
UntilAroundIf ==
    /\ ssa_pc = "ok"
    /\ \E i \in LoopDefinitions("BeginUntil") :
          /\ program[i].body[1].body # <<>>
          /\ program[i].body[1].body[1].kind = "If"
          /\ \E e \in EdgesTo(functions[i], FirstBlock(functions[i]) + 1) :
                /\ e[1] # FirstBlock(functions[i]) + 1
                /\ e[2].op = "Branch"

\* The shape of the function of a definition that begins with
\* BEGIN...WHILE...REPEAT.
WhileShape(i) ==
    LET fn == functions[i]
        first == FirstBlock(fn)
        cond_id == first + 1
        body_id == first + 2
        exit_id == first + 3
        c == ConvertSequence(
                 ScratchBlocks(first, 3, cond_id, program[i].param_count),
                 program[i].body[1].condition, fn.parameters)
        test == Branch(Last(c.stack), body_id, exit_id)
        b == ConvertSequence(SetCurrentBlock(Emit(c.cv, test), body_id),
                             program[i].body[1].body, Front(c.stack))
    IN  /\ InstructionsOf(fn, first) = <<Jump(cond_id)>>
        /\ c.stack # <<>>
        /\ InstructionsOf(fn, c.cv.current_block)
              = InstructionsOf(c.cv, c.cv.current_block) \o <<test>>
        /\ InstructionsOf(fn, b.cv.current_block)
              = InstructionsOf(b.cv, b.cv.current_block) \o <<Jump(cond_id)>>
        /\ EdgesTo(fn, cond_id)
              = {<<first, Jump(cond_id)>>, <<b.cv.current_block, Jump(cond_id)>>}
        /\ EdgesTo(fn, body_id) = {<<c.cv.current_block, test>>}
        /\ ResumesIn(fn, exit_id, Tail(program[i].body), Front(c.stack),
                     b.cv.next_register)

\* C13: BEGIN...WHILE...REPEAT allocates a condition block, a body block and
\* an exit block, jumps from the current block to the condition block, pops
\* the test there and branches to the body block on true and to the exit
\* block on false, translates the body from the condition block's stack and
\* ends it with a Jump back to the condition block, and goes on in the exit
\* block with the condition block's stack, not the body's.
WhileBuildsLoop ==
    \A i \in LoopDefinitions("BeginWhileRepeat") : WhileShape(i)

\* A BEGIN...WHILE...REPEAT was converted whose body pushed a register that
\* the Return in the exit block does not carry.
WhileBodyStackDropped ==
    /\ ssa_pc = "ok"
    /\ \E i \in LoopDefinitions("BeginWhileRepeat") :
          /\ program[i].body[1].body = <<IntLiteral(1)>>
          /\ Last(InstructionsOf(functions[i], FirstBlock(functions[i]) + 3))
                = Return(Front(functions[i].parameters))

\* The shape of the function of a definition that begins with DO...LOOP.
DoShape(i) ==
    LET fn == functions[i]
        first == FirstBlock(fn)
        loop_id == first + 1
        exit_id == first + 2
        n == Len(fn.parameters)
        l == ConvertSequence(
                 ScratchBlocks(first, 2, loop_id, program[i].param_count),
                 program[i].body[1].body, SubSeq(fn.parameters, 1, n - 2))
    IN  /\ InstructionsOf(fn, first) = <<Jump(loop_id)>>
        /\ InstructionsOf(fn, l.cv.current_block)
              = InstructionsOf(l.cv, l.cv.current_block) \o <<Jump(exit_id)>>
        /\ EdgesTo(fn, loop_id) = {<<first, Jump(loop_id)>>}
        /\ EdgesTo(fn, exit_id) = {<<l.cv.current_block, Jump(exit_id)>>}
        /\ ResumesIn(fn, exit_id, Tail(program[i].body), l.stack,
                     l.cv.next_register)

\* The definition being converted begins with DO and has fewer than two
\* parameters.
DoOnShortStack ==
    /\ def_index <= Len(program)
    /\ program[def_index].body # <<>>
    /\ program[def_index].body[1].kind = "DoLoop"
    /\ program[def_index].param_count < 2

\* C14: DO...LOOP pops limit and start, and fails with StackUnderflow
\* (expected 2, found what is there) when fewer than two registers are on
\* the stack; it allocates a loop block and an exit block, jumps to the loop
\* block, translates the body there and ends it with the one Jump to the
\* exit block, so that the only edge to the loop block is the Jump that
\* enters it, and goes on in the exit block with the body's stack.
DoRunsBodyOnce ==
    /\ \A i \in LoopDefinitions("DoLoop") : DoShape(i)
    /\ \A i \in 1..Len(functions) :
          (program[i].body # <<>> /\ program[i].body[1].kind = "DoLoop")
              => program[i].param_count >= 2
    /\ (ssa_pc = "err" /\ DoOnShortStack) =>
          /\ converter.err
                = StackUnderflow("DO", 2, program[def_index].param_count)
          /\ Emitted(converter.blocks) = 0

\* A DO...LOOP with a body that pushes a register was converted from a
\* stack of three.
DoLoopConverted ==
    /\ ssa_pc = "ok"
    /\ \E i \in LoopDefinitions("DoLoop") :
          /\ program[i].param_count = 3
          /\ program[i].body[1].body = <<IntLiteral(1)>>
          /\ Len(stack) = 2

-----------------------------------------------------------------------------
(***************************************************************************)
(* The IR programs handed to the inliner and to the optimizer.             *)
(***************************************************************************)

\* The words of the enumerated programs, in add_word order.
WordNames == <<"a", "b">>

\* Their instructions: a call to a name that has no WordDef is a call to an
\* absent word.
Alphabet ==
    {Instruction_Dup}
    \cup {Instruction_Call(WordNames[i]) : i \in 1..Len(WordNames)}

InstrSeqs(n) == UNION {[1..k -> Alphabet] : k \in 0..n}

RECURSIVE IsIR(_, _, _)

\* x is partial with more words added and a main, of at most budget
\* instructions in all.
IsIR(x, partial, budget) ==
    \/ \E main \in InstrSeqs(budget) : x = [partial EXCEPT !.main = main]
    \/ /\ Len(partial.words) < Len(WordNames)
       /\ \E body \in InstrSeqs(budget) \ {<<>>} : \E is_inline \in BOOLEAN :
             IsIR(x,
                  add_word(partial,
                           [WordDef_new(WordNames[Len(partial.words) + 1], body)
                                EXCEPT !.is_inline = is_inline]),
                  budget - Len(body))

\* : double 2 * ;   main: 5 double double 1 +
ExampleBasicInlining ==
    [add_word(ForthIR_new,
              WordDef_new("double", <<Instruction_Literal(2), Instruction_Mul>>))
        EXCEPT !.main = <<Instruction_Literal(5), Instruction_Call("double"),
                          Instruction_Call("double"), Instruction_Literal(1),
                          Instruction_Add>>]

\* : level3 dup ;  : level2 level3 ;  : level1 level2 ;   main: 5 level1
ExampleMultiLevelInlining ==
    [add_word(add_word(add_word(ForthIR_new,
        WordDef_new("level3", <<Instruction_Dup>>)),
        WordDef_new("level2", <<Instruction_Call("level3")>>)),
        WordDef_new("level1", <<Instruction_Call("level2")>>))
        EXCEPT !.main = <<Instruction_Literal(5), Instruction_Call("level1")>>]

\* factorial with a direct recursive call   main: 5 factorial
ExampleCycleDetection ==
    [add_word(ForthIR_new,
              WordDef_new("factorial",
                          <<Instruction_Dup, Instruction_Literal(1),
                            Instruction_Gt, Instruction_Call("factorial")>>))
        EXCEPT !.main = <<Instruction_Literal(5), Instruction_Call("factorial")>>]

\* tiny (1 instruction), small (2), medium (4)   main: 5 tiny small medium
ExampleOptimizationLevels ==
    [add_word(add_word(add_word(ForthIR_new,
        WordDef_new("tiny", <<Instruction_Dup>>)),
        WordDef_new("small", <<Instruction_Dup, Instruction_Add>>)),
        WordDef_new("medium", <<Instruction_Dup, Instruction_Add,
                                Instruction_Mul, Instruction_Sub>>))
        EXCEPT !.main = <<Instruction_Literal(5), Instruction_Call("tiny"),
                          Instruction_Call("small"), Instruction_Call("medium")>>]

\* : expensive-computation INLINE dup dup * dup * dup * + + ;
\* with a main that calls it: 5 expensive-computation
PatternForcedInline ==
    [add_word(ForthIR_new,
              [WordDef_new("expensive-computation",
                           <<Instruction_Dup, Instruction_Dup, Instruction_Mul,
                             Instruction_Dup, Instruction_Mul, Instruction_Dup,
                             Instruction_Mul, Instruction_Add, Instruction_Add>>)
                  EXCEPT !.is_inline = TRUE])
        EXCEPT !.main = <<Instruction_Literal(5),
                          Instruction_Call("expensive-computation")>>]

\* medium as above and a word of two calls to it   main: 5 pair
PairOfMedium ==
    [add_word(add_word(ForthIR_new,
        WordDef_new("medium", <<Instruction_Dup, Instruction_Add,
                                Instruction_Mul, Instruction_Sub>>)),
        WordDef_new("pair", <<Instruction_Call("medium"),
                              Instruction_Call("medium")>>))
        EXCEPT !.main = <<Instruction_Literal(5), Instruction_Call("pair")>>]

Examples ==
    {ExampleBasicInlining, ExampleMultiLevelInlining, ExampleCycleDetection,
     ExampleOptimizationLevels, PatternForcedInline, PairOfMedium}

InitInput ==
    /\ IsIR(ir, ForthIR_new, MaxIRSize) \/ ir \in Examples
    /\ level \in DOMAIN OptimizationLevel

\* The WordDef of that name (the first one added).
HasWord(x, name) == \E i \in 1..Len(x.words) : x.words[i].name = name

get_word(x, name) ==
    x.words[CHOOSE i \in 1..Len(x.words) :
               /\ x.words[i].name = name
               /\ \A j \in 1..(i - 1) : x.words[j].name # name]

-----------------------------------------------------------------------------
(***************************************************************************)
(* AggressiveInlineOptimizer::inline, one instruction at a time.  The      *)
(* bottom frame is the main sequence; every frame above it is a callee     *)
(* whose body is being expanded, with the instructions still to rewrite.   *)
(***************************************************************************)

\* Basic inlines bodies of at most this many instructions.
BasicMaxSize == 3

\* Standard inlines bodies of at most this many instructions, and expands
\* calls met at most this many expansions deep.
StandardMaxSize == 4
StandardMaxDepth == 2

MainFrame(x) == [name |-> "<main>", rest |-> x.main]

\* The cycle guard, switched off.
NeverOnActiveStack(name, fr) == FALSE

\* A cycle guard that looks at the innermost expansion only.
OnTopOfActiveStack(name, fr) == Len(fr) >= 2 /\ fr[Len(fr)].name = name

\* The cycle guard: the callee is on the active expansion stack.
OnActiveStack(name, fr) == \E i \in 2..Len(fr) : fr[i].name = name

\* An Aggressive level that, like Basic, expands the calls of the main
\* sequence only.
DepthAllowsMainOnly(lvl, depth) == depth = 0

\* A Basic level that expands calls at any depth.
DepthAllowsAnyDepth(lvl, depth) == TRUE

\* A size policy that is_inline does not override.
SizeAllowsUnflagged(lvl, word) ==
    \/ lvl = "Basic" /\ Len(word.instructions) <= BasicMaxSize
    \/ lvl = "Standard" /\ Len(word.instructions) <= StandardMaxSize
    \/ lvl = "Aggressive"

\* The size policy of the level (is_inline overrides it).
SizeAllows(lvl, word) ==
    \/ word.is_inline
    \/ lvl = "Basic" /\ Len(word.instructions) <= BasicMaxSize
    \/ lvl = "Standard" /\ Len(word.instructions) <= StandardMaxSize
    \/ lvl = "Aggressive"

\* The chain-depth policy: depth is the number of expansions in progress.
DepthAllows(lvl, depth) ==
    \/ lvl = "Basic" /\ depth = 0
    \/ lvl = "Standard" /\ depth < StandardMaxDepth
    \/ lvl = "Aggressive"

\* A substitution that copies the callee's body back to front.
InlinedBodyReversed(x, name) ==
    [k \in 1..Len(get_word(x, name).instructions) |->
        get_word(x, name).instructions[
            Len(get_word(x, name).instructions) + 1 - k]]

\* The copy of the callee's instruction body that replaces the call.
InlinedBody(x, name) == get_word(x, name).instructions

Eligible(x, lvl, name, fr) ==
    /\ HasWord(x, name)
    /\ ~OnActiveStack(name, fr)
    /\ SizeAllows(lvl, get_word(x, name))
    /\ DepthAllows(lvl, Len(fr) - 1)

\* The instruction being looked at, and the frames once it is consumed.
Current == Head(frames[Len(frames)].rest)

Advance(fr) == [fr EXCEPT ![Len(fr)].rest = Tail(@)]

Running == inl_pc = "run" /\ level # "None"

AtInstruction == Running /\ frames[Len(frames)].rest # <<>>

InitInline ==
    /\ InitInput
    /\ frames = <<MainFrame(ir)>>
    /\ out = <<>>
    /\ inlined = 0
    /\ inl_pc = "run"
    /\ SSAIdle /\ OptIdle /\ FixIdle /\ MoreIdle

\* Level None: the input is returned unchanged.
InlineReturnInput ==
    /\ inl_pc = "run"
    /\ level = "None"
    /\ out' = ir.main
    /\ frames' = <<>>
    /\ inl_pc' = "done"
    /\ UNCHANGED inlined
    /\ InlineOnly

\* An instruction that is not a call is copied.
CopyInstruction ==
    /\ AtInstruction
    /\ Current.op # "Call"
    /\ out' = Append(out, Current)
    /\ frames' = Advance(frames)
    /\ UNCHANGED <<inlined, inl_pc>>
    /\ InlineOnly

\* An inliner that also fails on a call it is not allowed to expand.
CalleeAbsentOrKept ==
    /\ AtInstruction
    /\ Current.op = "Call"
    /\ ~Eligible(ir, level, Current.name, frames)
    /\ inl_pc' = "failed"
    /\ UNCHANGED <<frames, out, inlined>>
    /\ InlineOnly

\* A call naming a word absent from the program: OptimizationFailed.
CalleeAbsent ==
    /\ AtInstruction
    /\ Current.op = "Call"
    /\ ~HasWord(ir, Current.name)
    /\ inl_pc' = "failed"
    /\ UNCHANGED <<frames, out, inlined>>
    /\ InlineOnly

\* An eligible call is replaced by a copy of the callee's body, which is
\* rewritten in turn with the callee on the active expansion stack.
InlineCall ==
    /\ AtInstruction
    /\ Current.op = "Call"
    /\ Eligible(ir, level, Current.name, frames)
    /\ frames' = Append(Advance(frames),
                        [name |-> Current.name,
                         rest |-> InlinedBody(ir, Current.name)])
    /\ inlined' = inlined + 1
    /\ UNCHANGED <<out, inl_pc>>
    /\ InlineOnly

\* A call that is not eligible stays a call.
KeepCall ==
    /\ AtInstruction
    /\ Current.op = "Call"
    /\ HasWord(ir, Current.name)
    /\ ~Eligible(ir, level, Current.name, frames)
    /\ out' = Append(out, Current)
    /\ frames' = Advance(frames)
    /\ UNCHANGED <<inlined, inl_pc>>
    /\ InlineOnly

\* The body of the innermost callee is rewritten: it leaves the stack.
EndExpansion ==
    /\ Running
    /\ Len(frames) > 1
    /\ frames[Len(frames)].rest = <<>>
    /\ frames' = SubSeq(frames, 1, Len(frames) - 1)
    /\ UNCHANGED <<out, inlined, inl_pc>>
    /\ InlineOnly

\* The main sequence is rewritten: Ok(optimized).
InlineDone ==
    /\ Running
    /\ Len(frames) = 1
    /\ frames[1].rest = <<>>
    /\ inl_pc' = "done"
    /\ UNCHANGED <<frames, out, inlined>>
    /\ InlineOnly

NextInline ==
    \/ InlineReturnInput
    \/ CopyInstruction
    \/ CalleeAbsent
    \/ InlineCall
    \/ KeepCall
    \/ EndExpansion
    \/ InlineDone

SpecInline == InitInline /\ [][NextInline]_vars

\* The inliner is a sequential computation: it takes its next step as long
\* as it has one.
FairSpecInline == SpecInline /\ WF_vars(NextInline)

-----------------------------------------------------------------------------
(***************************************************************************)
(* Properties of the inliner.                                              *)
(***************************************************************************)

\* The words whose body is being expanded.
BeingExpanded == {frames[i].name : i \in 2..Len(frames)}

\* The inliner is looking at a call to a word whose body is being expanded.
RecursiveCallMet ==
    /\ inl_pc = "run"
    /\ level # "None"
    /\ frames[Len(frames)].rest # <<>>
    /\ Head(frames[Len(frames)].rest).op = "Call"
    /\ Head(frames[Len(frames)].rest).name \in BeingExpanded

\* The words that call themselves and are called from the main sequence.
SelfRecursiveCalled ==
    {ir.words[i].name : i \in {j \in 1..Len(ir.words) :
        /\ Instruction_Call(ir.words[j].name) \in Range(ir.words[j].instructions)
        /\ Instruction_Call(ir.words[j].name) \in Range(ir.main)}}

\* C1: at every level no word is expanded while it is being expanded; a
\* call to a word being expanded stays a Call in the output; and the output
\* for a self-recursive word called from main still has a Call naming it.
RecursiveCallsPreserved ==
    /\ [](\A i \in 2..Len(frames) : \A j \in 2..Len(frames) :
            i # j => frames[i].name # frames[j].name)
    /\ [][RecursiveCallMet =>
            /\ out' = Append(out, Head(frames[Len(frames)].rest))
            /\ Len(frames') = Len(frames)]_vars
    /\ [](inl_pc = "done" =>
            \A name \in SelfRecursiveCalled :
                Instruction_Call(name) \in Range(out))

\* The Aggressive inliner is done with `5 factorial`: factorial was
\* expanded once and the call in its body is in the output.
FactorialCallKept ==
    /\ ir = ExampleCycleDetection
    /\ level = "Aggressive"
    /\ inl_pc = "done"
    /\ inlined = 1
    /\ out = <<Instruction_Literal(5), Instruction_Dup, Instruction_Literal(1),
               Instruction_Gt, Instruction_Call("factorial")>>

\* C2: inlining terminates at every level, whatever cycles the call graph
\* has, and the number of nested substitutions never exceeds the number of
\* words.
InliningTerminates ==
    /\ [](Len(frames) <= Len(ir.words) + 1)
    /\ <>(inl_pc \in {"done", "failed"})

\* Two words that call each other: the second is being expanded inside the
\* first and calls the first.
MutualRecursionMet ==
    /\ RecursiveCallMet
    /\ Len(frames) = 3
    /\ Len(ir.words) = 2
    /\ Head(frames[3].rest).name = frames[2].name
    /\ frames[2].name # frames[3].name

RECURSIVE Substituted(_, _, _, _)
\* The sequence with every eligible call replaced by the callee's body,
\* itself rewritten with the callee on the active expansion stack fr.  (A
\* sequence of several instructions is rewritten half by half.)
Substituted(x, lvl, seq, fr) ==
    IF seq = <<>> THEN <<>>
    ELSE IF Len(seq) > 1
    THEN Substituted(x, lvl, SubSeq(seq, 1, Len(seq) \div 2), fr)
         \o Substituted(x, lvl, SubSeq(seq, Len(seq) \div 2 + 1, Len(seq)), fr)
    ELSE IF seq[1].op = "Call" /\ Eligible(x, lvl, seq[1].name, fr)
    THEN Substituted(x, lvl, get_word(x, seq[1].name).instructions,
                     Append(fr, [name |-> seq[1].name, rest |-> <<>>]))
    ELSE seq

\* The main sequence after inlining at that level.
InlinedMain(x, lvl) ==
    IF lvl = "None" THEN x.main
    ELSE Substituted(x, lvl, x.main, <<MainFrame(x)>>)

\* The Call instructions of a sequence, as positions.
Calls(seq) == {k \in 1..Len(seq) : seq[k].op = "Call"}

\* The words the body of that word calls.
Callees(x, name) ==
    IF HasWord(x, name)
    THEN {get_word(x, name).instructions[k].name :
             k \in Calls(get_word(x, name).instructions)}
    ELSE {}

RECURSIVE ReachedFrom(_, _, _)
\* The words reached from the words of `names` by n calls or fewer.
ReachedFrom(x, names, n) ==
    IF n = 0 THEN names
    ELSE ReachedFrom(x, names \cup UNION {Callees(x, w) : w \in names}, n - 1)

\* The word calls itself, directly or through other words.
Recursive(x, name) ==
    name \in ReachedFrom(x, Callees(x, name), Len(x.words))

\* C15: at Aggressive, a main sequence whose calls reach no recursive word
\* is left without a Call instruction, and `5 level1` with level1 calling
\* level2 calling level3 becomes the literal followed by level3's body.
ChainCollapses ==
    (level = "Aggressive" /\ inl_pc = "done") =>
        /\ (\A k \in Calls(ir.main) :
               \A w \in ReachedFrom(ir, {ir.main[k].name}, Len(ir.words)) :
                   ~Recursive(ir, w))
              => Calls(out) = {}
        /\ ir = ExampleMultiLevelInlining
              => out = <<Instruction_Literal(5), Instruction_Dup>>

\* The Aggressive inliner is done with `5 level1`: three calls were
\* replaced, one inside the other, and main is 5 dup.
ChainCollapsed ==
    /\ ir = ExampleMultiLevelInlining
    /\ level = "Aggressive"
    /\ inl_pc = "done"
    /\ inlined = 3
    /\ out = <<Instruction_Literal(5), Instruction_Dup>>

\* C16: inlining is structural substitution: the rewritten main is main
\* with each inlined call replaced, at its position, by the callee's
\* instructions in order, every other instruction in its place; and
\* `5 double double 1 +` becomes 5 2 * 2 * 1 + at Standard and above, with
\* no call and more instructions than before.
InliningSubstitutes ==
    inl_pc = "done" =>
        /\ out = InlinedMain(ir, level)
        /\ (ir = ExampleBasicInlining /\ level \in {"Standard", "Aggressive"})
              => /\ out = <<Instruction_Literal(5), Instruction_Literal(2),
                            Instruction_Mul, Instruction_Literal(2),
                            Instruction_Mul, Instruction_Literal(1),
                            Instruction_Add>>
                 /\ Calls(out) = {}
                 /\ Len(out) > Len(ir.main)

\* The Standard inliner is done with `5 double double 1 +`: both calls were
\* replaced and main has seven instructions.
DoubleInlinedTwice ==
    /\ ir = ExampleBasicInlining
    /\ level = "Standard"
    /\ inl_pc = "done"
    /\ inlined = 2
    /\ Len(out) = 7

\* The inliner is looking at a call to a word that exists, has is_inline
\* set and is not recursive, at a depth the level expands calls at.
ForcedCallMet ==
    /\ inl_pc = "run"
    /\ level # "None"
    /\ frames[Len(frames)].rest # <<>>
    /\ Head(frames[Len(frames)].rest).op = "Call"
    /\ HasWord(ir, Head(frames[Len(frames)].rest).name)
    /\ get_word(ir, Head(frames[Len(frames)].rest).name).is_inline
    /\ ~Recursive(ir, Head(frames[Len(frames)].rest).name)
    /\ DepthAllows(level, Len(frames) - 1)

\* The words with is_inline set that are not recursive and that no word's
\* body calls.
ForcedCalledFromMainOnly ==
    {ir.words[i].name : i \in {j \in 1..Len(ir.words) :
        /\ ir.words[j].is_inline
        /\ ~Recursive(ir, ir.words[j].name)
        /\ \A k \in 1..Len(ir.words) :
              ir.words[j].name \notin Callees(ir, ir.words[k].name)}}

RECURSIVE CopiedOnce(_, _)
\* The sequence with each call Basic inlines replaced by the callee's body
\* as it stands.
CopiedOnce(x, seq) ==
    IF seq = <<>> THEN <<>>
    ELSE (IF Head(seq).op = "Call"
             /\ HasWord(x, Head(seq).name)
             /\ SizeAllows("Basic", get_word(x, Head(seq).name))
          THEN get_word(x, Head(seq).name).instructions
          ELSE <<Head(seq)>>)
         \o CopiedOnce(x, Tail(seq))

\* C18: at Basic inlining goes one level deep: no expansion is started
\* inside a body being copied, and the rewritten main is main with each
\* inlined call replaced by the callee's body as it stands, the calls in
\* that body left as calls even when their callees are small.
BasicOneLevelDeep ==
    level = "Basic" =>
        /\ Len(frames) <= 2
        /\ inl_pc = "done" => out = CopiedOnce(ir, ir.main)

\* The Basic inliner is done with `5 level1`: level1 was replaced by its
\* body, and the call to level2 in it, a word of one instruction, is left.
BasicLeftInnerCall ==
    /\ ir = ExampleMultiLevelInlining
    /\ level = "Basic"
    /\ inl_pc = "done"
    /\ inlined = 1
    /\ Len(get_word(ir, "level2").instructions) <= BasicMaxSize
    /\ out = <<Instruction_Literal(5), Instruction_Call("level2")>>

\* C19: for a fixed program the number of Call instructions left in main
\* does not grow from one level to the next higher one: the output of a
\* finished run has no more calls than inlining the same program at any
\* lower level leaves.
CallsNonIncreasing ==
    inl_pc = "done" =>
        \A lower \in DOMAIN OptimizationLevel :
            OptimizationLevel[lower] < OptimizationLevel[level] =>
                Cardinality(Calls(out))
                    <= Cardinality(Calls(InlinedMain(ir, lower)))

-----------------------------------------------------------------------------
(***************************************************************************)
(* Optimizer::optimize, one statement at a time.  The passes themselves    *)
(* are not among the sources: a pass returns an error or a new IR, and the *)
(* IRs it may return are kept to a few.                                    *)
(***************************************************************************)

\* The Err a pass (or verify) may return.
PassFailed == [err |-> "OptimizationFailed"]

\* A pass other than inlining returns its input or its input with the last
\* instruction of main gone.
PassOutcomes(x) ==
    {x, PassFailed}
    \cup (IF x.main = <<>> THEN {}
          ELSE {[x EXCEPT !.main = SubSeq(@, 1, Len(@) - 1)]})

\* The inlining pass returns its input or its input with one call of main
\* replaced by the body of the word it names.
InlineOutcomes(x) ==
    {x, PassFailed}
    \cup {[x EXCEPT !.main = SubSeq(@, 1, k - 1)
                              \o get_word(x, x.main[k].name).instructions
                              \o SubSeq(@, k + 1, Len(@))] :
            k \in {j \in 1..Len(x.main) :
                      /\ x.main[j].op = "Call"
                      /\ HasWord(x, x.main[j].name)}}

\* An optimize that goes on to the passes at every level.
ReturnsInputNever(lvl) == FALSE

\* `if self.level == OptimizationLevel::None { return Ok(ir); }`
ReturnsInput(lvl) == lvl = "None"

\* A gate that opens above the level it names, not at it.
AtLeastAbove(lvl, other) == OptimizationLevel[lvl] > OptimizationLevel[other]

AtLeast(lvl, other) == OptimizationLevel[lvl] >= OptimizationLevel[other]

InitOpt ==
    /\ InitInput
    /\ opt_ir = ir
    /\ opt_passes = <<>>
    /\ opt_pc = "optimize"
    /\ SSAIdle /\ InlineIdle /\ FixIdle /\ MoreIdle

\* After a pass that ran: its IR and the next statement, or the error.
PassRan(name, result, next) ==
    IF result = PassFailed
    THEN /\ opt_pc' = "err"
         /\ UNCHANGED <<opt_ir, opt_passes>>
    ELSE /\ opt_ir' = result
         /\ opt_passes' = Append(opt_passes, name)
         /\ opt_pc' = next

PassSkipped(next) == opt_pc' = next /\ UNCHANGED <<opt_ir, opt_passes>>

CheckLevel ==
    /\ opt_pc = "optimize"
    /\ opt_pc' = IF ReturnsInput(level) THEN "ok" ELSE "constant_fold"
    /\ UNCHANGED <<opt_ir, opt_passes>>
    /\ OptOnly

ConstantFold ==
    /\ opt_pc = "constant_fold"
    /\ \E result \in PassOutcomes(opt_ir) :
          PassRan("constant_fold", result, "inline")
    /\ OptOnly

Inline ==
    /\ opt_pc = "inline"
    /\ IF AtLeast(level, "Standard")
       THEN \E result \in InlineOutcomes(opt_ir) :
               PassRan("inline", result, "superinstructions")
       ELSE PassSkipped("superinstructions")
    /\ OptOnly

Superinstructions ==
    /\ opt_pc = "superinstructions"
    /\ IF AtLeast(level, "Basic")
       THEN \E result \in PassOutcomes(opt_ir) :
               PassRan("superinstructions", result, "dead_code")
       ELSE PassSkipped("dead_code")
    /\ OptOnly

DeadCode ==
    /\ opt_pc = "dead_code"
    /\ \E result \in PassOutcomes(opt_ir) :
          PassRan("dead_code", result, "stack_cache")
    /\ OptOnly

StackCache ==
    /\ opt_pc = "stack_cache"
    /\ IF AtLeast(level, "Standard")
       THEN \E result \in PassOutcomes(opt_ir) :
               PassRan("stack_cache", result, "verify")
       ELSE PassSkipped("verify")
    /\ OptOnly

\* `ir.verify()?; Ok(ir)`
Verify ==
    /\ opt_pc = "verify"
    /\ \E result \in {opt_ir, PassFailed} : PassRan("verify", result, "ok")
    /\ OptOnly

NextOpt ==
    \/ CheckLevel
    \/ ConstantFold
    \/ Inline
    \/ Superinstructions
    \/ DeadCode
    \/ StackCache
    \/ Verify

SpecOpt == InitOpt /\ [][NextOpt]_vars

-----------------------------------------------------------------------------
(***************************************************************************)
(* Optimizer::optimize_until_fixpoint.  Each pass is a value               *)
(* transformation: the same IR in, the same IR out.  The inlining pass is  *)
(* the inliner above; the other passes, whose sources are not among the    *)
(* repository's files, leave the IRs of the model as they are.             *)
(***************************************************************************)

\* `const MAX_ITERATIONS: usize = 10;`
MAX_ITERATIONS == 10

\* inline(&ir): the IR with main rewritten, or the Err for a call to an
\* absent word met on the way.
InlinePass(x, lvl) ==
    With(InlinedMain(x, lvl), LAMBDA main :
        IF \E k \in 1..Len(main) :
              main[k].op = "Call" /\ ~HasWord(x, main[k].name)
        THEN PassFailed
        ELSE [x EXCEPT !.main = main])

\* optimize(ir) as a function of the IR and the level.
Optimize(x, lvl) ==
    IF ReturnsInput(lvl) THEN x
    ELSE IF AtLeast(lvl, "Standard") THEN InlinePass(x, lvl)
    ELSE x

InitFix ==
    /\ InitInput
    /\ fix_current = ir
    /\ fix_iterations = 0
    /\ fix_result = ForthIR_new
    /\ fix_pc = "loop"
    /\ SSAIdle /\ InlineIdle /\ OptIdle /\ MoreIdle

\* `self.optimize(current.clone())?` returned an Err.
FixFailed ==
    /\ fix_pc = "loop"
    /\ \E optimized \in {Optimize(fix_current, level)} :
          optimized = PassFailed
    /\ fix_pc' = "err"
    /\ UNCHANGED <<fix_current, fix_iterations, fix_result>>
    /\ FixOnly

\* `if optimized == current || iterations >= MAX_ITERATIONS
\*  { return Ok(optimized); }`
FixReturn ==
    /\ fix_pc = "loop"
    /\ \E optimized \in {Optimize(fix_current, level)} :
          /\ optimized # PassFailed
          /\ optimized = fix_current \/ fix_iterations >= MAX_ITERATIONS
          /\ fix_result' = optimized
    /\ fix_pc' = "ok"
    /\ UNCHANGED <<fix_current, fix_iterations>>
    /\ FixOnly

\* `current = optimized; iterations += 1;`
FixAgain ==
    /\ fix_pc = "loop"
    /\ fix_iterations < MAX_ITERATIONS
    /\ \E optimized \in {Optimize(fix_current, level)} :
          /\ optimized # PassFailed
          /\ optimized # fix_current
          /\ fix_current' = optimized
    /\ fix_iterations' = fix_iterations + 1
    /\ UNCHANGED <<fix_result, fix_pc>>
    /\ FixOnly

NextFix == FixFailed \/ FixReturn \/ FixAgain

SpecFix == InitFix /\ [][NextFix]_vars

-----------------------------------------------------------------------------
(***************************************************************************)
(* Properties of the optimizer driver.                                     *)
(***************************************************************************)

\* C3: at level None optimize returns its input (same main, same words) and
\* applies no pass.
NoneIsIdentity ==
    level = "None" =>
        /\ opt_pc \in {"idle", "optimize", "ok"}
        /\ opt_passes = <<>>
        /\ opt_ir = ir

\* optimize has returned at level None for a program with words and calls.
NoneReturned ==
    /\ opt_pc = "ok"
    /\ level = "None"
    /\ ir.words # <<>>
    /\ \E k \in 1..Len(ir.main) : ir.main[k].op = "Call"
    /\ opt_ir = ir


\* C20: the IR optimize_until_fixpoint returns is a fixpoint of optimize at
\* the same level: optimizing it again succeeds and gives the same IR.
FixpointIsIdempotent ==
    fix_pc = "ok" => Optimize(fix_result, level) = fix_result

\* The runs of the pass sequence optimize_until_fixpoint has made: one for
\* each turn of the loop that went on, and the one it returned from.
Runs == fix_iterations + (IF fix_pc \in {"ok", "err"} THEN 1 ELSE 0)

\* C21: optimize_until_fixpoint runs the pass sequence at most
\* MAX_ITERATIONS (10) times on any input; it returns as soon as a run gives
\* back an IR equal to its input, and returns the error of a run at once.
AtMostTenRuns ==
    /\ Runs <= MAX_ITERATIONS
    /\ (fix_pc = "ok" /\ fix_iterations < MAX_ITERATIONS) =>
          fix_result = fix_current
    /\ fix_pc = "err" => Optimize(fix_current, level) = PassFailed

\* The passes optimize runs at a level, in order.
PassOrder(lvl) ==
    IF lvl = "None" THEN <<>>
    ELSE IF OptimizationLevel[lvl] >= OptimizationLevel["Standard"]
    THEN <<"constant_fold", "inline", "superinstructions", "dead_code",
           "stack_cache", "verify">>
    ELSE <<"constant_fold", "superinstructions", "dead_code", "verify">>

\* C22: optimize runs constant folding, inlining, superinstruction
\* recognition, dead-code elimination, stack caching and verification in
\* that order, inlining and stack caching exactly at Standard and
\* Aggressive, the others at every level above None; when a pass fails no
\* later pass runs and the error is returned; when optimize returns Ok all
\* the passes of the level have run.
PassesInOrder ==
    /\ Len(opt_passes) <= Len(PassOrder(level))
    /\ opt_passes = SubSeq(PassOrder(level), 1, Len(opt_passes))
    /\ opt_pc = "ok" => opt_passes = PassOrder(level)
    /\ opt_pc = "err" => Len(opt_passes) < Len(PassOrder(level))
    /\ opt_pc \in {"idle", "optimize", "constant_fold", "inline",
                   "superinstructions", "dead_code", "stack_cache", "verify",
                   "ok", "err"}
    /\ (opt_pc \notin {"idle", "optimize", "ok", "err"}) =>
          PassOrder(level)[Len(opt_passes) + 1] = opt_pc
             \/ (opt_pc \in {"inline", "stack_cache"}
                 /\ ~(OptimizationLevel[level] >= OptimizationLevel["Standard"]))

\* optimize returned Ok at Standard: six passes ran, inlining second and
\* stack caching fifth.
StandardRanAllPasses ==
    /\ opt_pc = "ok"
    /\ level = "Standard"
    /\ Len(opt_passes) = 6
    /\ opt_passes[2] = "inline"
    /\ opt_passes[5] = "stack_cache"


-----------------------------------------------------------------------------
(***************************************************************************)
(* Failure conditions of the inliner.                                      *)
(***************************************************************************)

\* The names called anywhere in the program.
WordNamesUsed ==
    {c.name : c \in {d \in Range(ir.main) : d.op = "Call"}} \cup
    UNION {{c.name : c \in {d \in Range(ir.words[i].instructions) :
                                d.op = "Call"}} : i \in 1..Len(ir.words)}

\* The inliner is looking at a call to a word of the program that the
\* policy does not let it expand.
IneligibleCallMet ==
    /\ AtInstruction
    /\ Current.op = "Call"
    /\ HasWord(ir, Current.name)
    /\ ~Eligible(ir, level, Current.name, frames)

\* C25: the inliner signals OptimizationFailed only when it meets a Call
\* naming a word absent from the program; a call to a present word that is
\* too large, met beyond the depth limit or being expanded is copied to
\* the output as a Call and the operation goes on.
FailsOnlyOnAbsentCallee ==
    /\ [][inl_pc' = "failed" =>
            /\ AtInstruction
            /\ Current.op = "Call"
            /\ ~HasWord(ir, Current.name)]_vars
    /\ [][IneligibleCallMet =>
            /\ out' = Append(out, Current)
            /\ inl_pc' = "run"]_vars
    /\ [](inl_pc = "failed" =>
            \E name \in WordNamesUsed : ~HasWord(ir, name))

\* The inliner is done and its output has a Call to a word of the program
\* that is too large for the level.
TooLargeLeftAsCall ==
    /\ inl_pc = "done"
    /\ level \in {"Basic", "Standard"}
    /\ \E k \in 1..Len(out) :
          /\ out[k].op = "Call"
          /\ HasWord(ir, out[k].name)
          /\ ~SizeAllows(level, get_word(ir, out[k].name))


-----------------------------------------------------------------------------
(***************************************************************************)
(* The control-flow graph of the functions.                                *)
(***************************************************************************)

IsTerminator(ins) == ins.op \in {"Branch", "Jump", "Return"}

\* C26: in every function convert_definition produced, whatever the
\* nesting of control structures, every basic block ends with one
\* terminator (Branch, Jump or Return) and holds no other terminator, so
\* that no instruction follows a terminator; every Branch and Jump target
\* is the id of a block of the same function; and no two blocks of the
\* function have the same id.
BlocksAreWellFormed ==
    \A f \in 1..Len(functions) :
        /\ \A b \in 1..Len(functions[f].blocks) :
              /\ functions[f].blocks[b].instructions # <<>>
              /\ IsTerminator(Last(functions[f].blocks[b].instructions))
              /\ \A k \in 1..(Len(functions[f].blocks[b].instructions) - 1) :
                    ~IsTerminator(functions[f].blocks[b].instructions[k])
              /\ Targets(Last(functions[f].blocks[b].instructions))
                    \subseteq BlockIds(functions[f])
              /\ \A c \in 1..Len(functions[f].blocks) :
                    functions[f].blocks[c].id = functions[f].blocks[b].id => c = b

\* A definition whose body is one control structure holding another was
\* converted: its function has five blocks or more.
NestedControlConverted ==
    /\ ssa_pc = "ok"
    /\ \E f \in 1..Len(functions) :
          /\ Len(program[f].body) = 1
          /\ program[f].body[1].kind \in {"If", "BeginUntil", "BeginWhileRepeat", "DoLoop"}
          /\ Len(functions[f].blocks) >= 5


-----------------------------------------------------------------------------
(***************************************************************************)
(* The stack-shuffle words and the binary operators.                       *)
(***************************************************************************)

ShuffleWords == {"dup", "drop", "swap", "over", "rot"}

\* The stack effect of a Forth stack-shuffle word on a stack deep enough
\* for it (the top of the stack is the last element).
ForthEffect(name, s) ==
    LET n == Len(s)
    IN  CASE name = "dup"  -> SubSeq(s, 1, n - 1) \o <<s[n], s[n]>>
          [] name = "drop" -> SubSeq(s, 1, n - 1)
          [] name = "swap" -> SubSeq(s, 1, n - 2) \o <<s[n], s[n - 1]>>
          [] name = "over" -> SubSeq(s, 1, n - 2) \o <<s[n - 1], s[n], s[n - 1]>>
          [] name = "rot"  -> SubSeq(s, 1, n - 3) \o <<s[n - 1], s[n], s[n - 2]>>

RECURSIVE AfterShuffles(_, _)
AfterShuffles(words, s) ==
    IF words = <<>> THEN s
    ELSE AfterShuffles(Tail(words), ForthEffect(Head(words).name, s))

IsShuffle(word) == word.kind = "WordRef" /\ word.name \in ShuffleWords

IsBinary(word) == word.kind = "WordRef" /\ word.name \in DOMAIN BinaryOperator

\* The definitions converted so far whose body is stack-shuffle words only,
\* and those whose body is stack-shuffle words and then a binary operator.
ShuffleDefinitions ==
    {i \in 1..Len(functions) :
        \A k \in 1..Len(program[i].body) : IsShuffle(program[i].body[k])}

ShuffleThenBinaryDefinitions ==
    {i \in 1..Len(functions) :
        /\ program[i].body # <<>>
        /\ IsBinary(Last(program[i].body))
        /\ \A k \in 1..(Len(program[i].body) - 1) : IsShuffle(program[i].body[k])}

\* The converter is as the conversion of definition i left it.
JustConverted(i) == i = def_index - 1 /\ ssa_pc # "err"

\* C28: dup, drop, swap, over and rot emit no instruction and allocate no
\* register: they rearrange the simulated stack as the Forth words do and
\* leave every deeper slot as it was (the function returns the rearranged
\* parameters).  A binary operator takes the top of the stack as its right
\* operand and the slot below as its left operand, and pushes one fresh
\* destination register in their place.
ShufflesOnlyRearrange ==
    /\ \A i \in ShuffleDefinitions :
          /\ Len(functions[i].blocks) = 1
          /\ functions[i].blocks[1].instructions =
                <<Return(AfterShuffles(program[i].body, functions[i].parameters))>>
          /\ JustConverted(i) =>
                /\ converter.handed = <<>>
                /\ converter.next_register = program[i].param_count
    /\ \A i \in ShuffleThenBinaryDefinitions :
          LET s == AfterShuffles(Front(program[i].body), functions[i].parameters)
              dest == program[i].param_count
          IN  /\ Len(functions[i].blocks) = 1
              /\ functions[i].blocks[1].instructions =
                    <<BinaryOp(dest, BinaryOperator[Last(program[i].body).name],
                               s[Len(s) - 1], s[Len(s)]),
                      Return(SubSeq(s, 1, Len(s) - 2) \o <<dest>>)>>
              /\ JustConverted(i) => converter.handed = <<dest>>

\* `rot +` was converted on three parameters: the sum is of the second
\* parameter's successor on the stack and the first parameter.
RotThenAddConverted ==
    /\ ssa_pc = "ok"
    /\ Len(functions) = 1
    /\ program[1].body = <<WordRef("rot"), WordRef("+")>>
    /\ functions[1].blocks[1].instructions[1].left = 2
    /\ functions[1].blocks[1].instructions[1].right = 0


-----------------------------------------------------------------------------
(***************************************************************************)
(* CompilationStats::optimization_savings (src/pipeline.rs).  The counts   *)
(* are usize; the subtraction is checked in a build with overflow checks   *)
(* (it panics) and wraps modulo 2^64 in a build without.                   *)
(***************************************************************************)

InitStats ==
    /\ stats \in {CompilationStats(before, after) :
                     before \in 0..MaxCount, after \in 0..MaxCount}
    /\ savings = Zero
    /\ stats_pc = "call"
    /\ CoreIdle /\ LowerIdle /\ ParseIdle /\ GraphIdle

\* instructions_before == 0: 0.0.
SavingsOfNothing ==
    /\ stats_pc = "call"
    /\ stats.instructions_before = 0
    /\ savings' = Zero
    /\ stats_pc' = "done"
    /\ UNCHANGED stats
    /\ StatsOnly

\* The subtraction does not overflow.
SavingsRatio ==
    /\ stats_pc = "call"
    /\ stats.instructions_before # 0
    /\ stats.instructions_after <= stats.instructions_before
    /\ savings' = Ratio(stats.instructions_before - stats.instructions_after,
                        stats.instructions_before, FALSE)
    /\ stats_pc' = "done"
    /\ UNCHANGED stats
    /\ StatsOnly

\* The subtraction overflows, overflow checks on: panic.
SavingsPanics ==
    /\ stats_pc = "call"
    /\ stats.instructions_before # 0
    /\ stats.instructions_after > stats.instructions_before
    /\ stats_pc' = "panic"
    /\ UNCHANGED <<stats, savings>>
    /\ StatsOnly

\* The subtraction overflows, overflow checks off: it wraps.
SavingsWraps ==
    /\ stats_pc = "call"
    /\ stats.instructions_before # 0
    /\ stats.instructions_after > stats.instructions_before
    /\ savings' = Ratio(stats.instructions_before - stats.instructions_after,
                        stats.instructions_before, TRUE)
    /\ stats_pc' = "done"
    /\ UNCHANGED stats
    /\ StatsOnly

NextStats == SavingsOfNothing \/ SavingsRatio \/ SavingsPanics \/ SavingsWraps

SpecStats == InitStats /\ [][NextStats]_vars

\* C30: optimization_savings is defined for every pair of counts: 0.0 when
\* instructions_before is 0, and otherwise the ratio
\* (instructions_before - instructions_after) / instructions_before with
\* no unsigned underflow, also when instructions_after is the larger.
SavingsIsSignedRatio ==
    /\ stats_pc # "panic"
    /\ stats_pc = "done" =>
          IF stats.instructions_before = 0 THEN savings = Zero
          ELSE savings = Ratio(stats.instructions_before - stats.instructions_after,
                               stats.instructions_before, FALSE)


-----------------------------------------------------------------------------
(***************************************************************************)
(* CompilationPipeline::convert_to_ir and ssa_to_instructions              *)
(* (src/pipeline.rs): the SSA functions of the front end become the words  *)
(* of a flat ForthIR.                                                      *)
(***************************************************************************)

Instruction_Label(name) == [op |-> "Label", name |-> name]
Instruction_Return == [op |-> "Return"]
Instruction_BranchIfNot(target) == [op |-> "BranchIfNot", target |-> target]
Instruction_Branch(target) == [op |-> "Branch", target |-> target]

\* format!("bb{}", id)
LabelOf(id) == "bb" \o ToString(id)

\* The Instruction of a BinaryOperator and of a UnaryOperator.
BinaryInstruction ==
    ("add" :> "Add") @@ ("sub" :> "Sub") @@ ("mul" :> "Mul") @@ ("div" :> "Div")
    @@ ("mod" :> "Mod") @@ ("lt" :> "Lt") @@ ("gt" :> "Gt") @@ ("le" :> "Le")
    @@ ("ge" :> "Ge") @@ ("eq" :> "Eq") @@ ("ne" :> "Ne") @@ ("and" :> "And")
    @@ ("or" :> "Or")

UnaryInstruction == ("neg" :> "Neg") @@ ("not" :> "Not") @@ ("abs" :> "Abs")

\* The two instructions of a Branch.
SsaBranch(ins) ==
    <<Instruction_BranchIfNot(ins.true_block), Instruction_Branch(ins.false_block)>>

\* The match of ssa_to_instructions: the instructions pushed for one
\* SSAInstruction.
SsaInstruction(ins) ==
    CASE ins.op = "LoadInt" -> <<Instruction_Literal(ins.value)>>
      [] ins.op = "BinaryOp" -> <<[op |-> BinaryInstruction[ins.bop]]>>
      [] ins.op = "UnaryOp" -> <<[op |-> UnaryInstruction[ins.uop]]>>
      [] ins.op = "Call" -> <<Instruction_Call(ins.name)>>
      [] ins.op = "Return" -> <<Instruction_Return>>
      [] ins.op = "Branch" -> SsaBranch(ins)
      [] ins.op = "Jump" -> <<Instruction_Branch(ins.target)>>
      [] ins.op = "Load" -> <<[op |-> "Load"]>>
      [] ins.op = "Store" -> <<[op |-> "Store"]>>
      [] OTHER -> <<>>

RECURSIVE SsaInstructions(_)
SsaInstructions(instructions) ==
    IF instructions = <<>> THEN <<>>
    ELSE SsaInstruction(Head(instructions)) \o SsaInstructions(Tail(instructions))

RECURSIVE SsaBlocks(_)
SsaBlocks(blocks) ==
    IF blocks = <<>> THEN <<>>
    ELSE <<Instruction_Label(LabelOf(Head(blocks).id))>>
         \o SsaInstructions(Head(blocks).instructions)
         \o SsaBlocks(Tail(blocks))

ssa_to_instructions(func) == SsaBlocks(func.blocks)

InitLower ==
    /\ EnterConvertToSSA
    /\ lower_ir = ForthIR_new
    /\ lower_index = 1
    /\ lower_pc = "frontend"
    /\ InputIdle /\ InlineIdle /\ OptIdle /\ FixIdle /\ StatsIdle /\ ParseIdle /\ GraphIdle

\* run_frontend returned the functions: convert_to_ir begins.
EnterConvertToIR ==
    /\ lower_pc = "frontend"
    /\ ssa_pc = "ok"
    /\ lower_pc' = "loop"
    /\ UNCHANGED <<lower_ir, lower_index>>
    /\ LowerOnly

\* run_frontend returned an SSAError: so does compile.
FrontendFailed ==
    /\ lower_pc = "frontend"
    /\ ssa_pc = "err"
    /\ lower_pc' = "err"
    /\ UNCHANGED <<lower_ir, lower_index>>
    /\ LowerOnly

\* One turn of `for func in ssa_functions`.
LowerNextFunction ==
    /\ lower_pc = "loop"
    /\ lower_index <= Len(functions)
    /\ lower_ir' = add_word(lower_ir,
                            WordDef_new(functions[lower_index].name,
                                        ssa_to_instructions(functions[lower_index])))
    /\ lower_index' = lower_index + 1
    /\ UNCHANGED lower_pc
    /\ LowerOnly

\* Ok(ir).
ReturnIR ==
    /\ lower_pc = "loop"
    /\ lower_index > Len(functions)
    /\ lower_pc' = "ok"
    /\ UNCHANGED <<lower_ir, lower_index>>
    /\ LowerOnly

NextLower ==
    \/ ConvertNextDefinition
    \/ ReturnFunctions
    \/ EnterConvertToIR
    \/ FrontendFailed
    \/ LowerNextFunction
    \/ ReturnIR

SpecLower == InitLower /\ [][NextLower]_vars

(***************************************************************************)
(* Running the flat branch instructions: BranchIfNot(t) takes the          *)
(* condition from the stack and goes to block t when it is zero (it        *)
(* branches if not), otherwise the next instruction runs; Branch(t) goes   *)
(* to block t.                                                             *)
(***************************************************************************)

RECURSIVE Transfer(_, _, _)
\* The label control goes to from position k when the condition is c.
Transfer(flat, k, c) ==
    IF k > Len(flat) THEN "<end>"
    ELSE CASE flat[k].op = "BranchIfNot" ->
                 IF c = 0 THEN LabelOf(flat[k].target) ELSE Transfer(flat, k + 1, c)
           [] flat[k].op = "Branch" -> LabelOf(flat[k].target)
           [] OTHER -> "<next>"

\* Where the instructions of the block of that label begin and end in the
\* flat sequence: after its Label, before the next Label.
LabelAt(flat, name) ==
    CHOOSE k \in 1..Len(flat) : flat[k] = Instruction_Label(name)

SegmentEnd(flat, start) ==
    CHOOSE e \in start..Len(flat) :
        /\ \A k \in (start + 1)..e : flat[k].op # "Label"
        /\ e = Len(flat) \/ flat[e + 1].op = "Label"

Segment(flat, name) ==
    SubSeq(flat, LabelAt(flat, name) + 1, SegmentEnd(flat, LabelAt(flat, name)))

\* The operation names a block's instructions are emitted under.
EmittedAs(ins) ==
    CASE ins.op = "LoadInt" -> <<"Literal">>
      [] ins.op = "BinaryOp" -> <<BinaryInstruction[ins.bop]>>
      [] ins.op = "UnaryOp" -> <<UnaryInstruction[ins.uop]>>
      [] ins.op = "Jump" -> <<"Branch">>
      [] ins.op = "Branch" -> <<"BranchIfNot", "Branch">>
      [] ins.op = "Phi" -> <<>>
      [] OTHER -> <<ins.op>>

RECURSIVE OpsOf(_)
OpsOf(instructions) ==
    IF instructions = <<>> THEN <<>>
    ELSE EmittedAs(Head(instructions)) \o OpsOf(Tail(instructions))

\* The blocks that end with a Branch, as <<function, block>> positions.
BranchBlocks ==
    {fb \in UNION {{<<f, b>> : b \in 1..Len(functions[f].blocks)} :
                      f \in 1..(lower_index - 1)} :
        /\ functions[fb[1]].blocks[fb[2]].instructions # <<>>
        /\ Last(functions[fb[1]].blocks[fb[2]].instructions).op = "Branch"}

\* C27: each block of a converted function is emitted as Label bb<id>
\* followed by its instructions in order, and the flat instructions of an
\* SSA Branch with condition c, true_block T and false_block F take control
\* to label bbT exactly when c is true (non-zero) and to label bbF
\* otherwise.
BranchDirectionPreserved ==
    /\ \A f \in 1..(lower_index - 1) :
          /\ lower_ir.words[f].name = functions[f].name
          /\ \A b \in 1..Len(functions[f].blocks) :
                [k \in 1..Len(Segment(lower_ir.words[f].instructions,
                                      LabelOf(functions[f].blocks[b].id))) |->
                    Segment(lower_ir.words[f].instructions,
                            LabelOf(functions[f].blocks[b].id))[k].op]
                = OpsOf(functions[f].blocks[b].instructions)
    /\ \A fb \in BranchBlocks :
          LET branch == Last(functions[fb[1]].blocks[fb[2]].instructions)
              flat == lower_ir.words[fb[1]].instructions
              k == SegmentEnd(flat, LabelAt(flat,
                       LabelOf(functions[fb[1]].blocks[fb[2]].id))) - 1
          IN  /\ \A c \in {-1, 1} : Transfer(flat, k, c) = LabelOf(branch.true_block)
              /\ Transfer(flat, k, 0) = LabelOf(branch.false_block)


-----------------------------------------------------------------------------
(***************************************************************************)
(* The parser (frontend/src/parser.rs), one loop iteration at a time.  A   *)
(* token is its discriminant; past the end of `tokens` peek gives Eof.     *)
(***************************************************************************)

\* The tokens of control structures and definition bodies, and the tokens
\* of declarations.
BodyTokens ==
    {"Colon", "Semicolon", "Word", "Integer", "If", "Else", "Then", "Begin",
     "Until", "While", "Repeat", "Do", "Loop"}

DeclarationTokens ==
    {"Colon", "Semicolon", "Word", "Integer", "Variable", "Constant",
     "LeftParen", "RightParen", "StackEffectSep", "Immediate"}

\* Token, by discriminant.
Tokens ==
    BodyTokens \cup DeclarationTokens \cup {"Float", "String", "PlusLoop", "Eof"}

\* The sources of the parser's tests, as tokens.
TestSimpleDefinition == <<"Colon", "Word", "Integer", "Word", "Semicolon">>

TestWithStackEffect ==
    <<"Colon", "Word", "LeftParen", "Word", "StackEffectSep", "Word",
      "RightParen", "Word", "Word", "Semicolon">>

TestIfThen ==
    <<"Colon", "Word", "LeftParen", "Word", "StackEffectSep", "Word",
      "RightParen", "Word", "Integer", "Word", "If", "Word", "Then",
      "Semicolon">>

TestBeginUntil ==
    <<"Colon", "Word", "Begin", "Word", "Word", "Integer", "Word", "Word",
      "Integer", "Word", "Until", "Word", "Semicolon">>

TokenAt(i) == IF i < Len(tokens) THEN tokens[i + 1] ELSE "Eof"

\* peek(): the current token.
Peek == TokenAt(position)

Top == Last(active)

\* The tokens the loop of a parse function has an arm for; any other token
\* goes to parse_word.
Handled(fn) ==
    CASE fn = "parse_program" -> {"Colon", "Variable", "Constant", "Integer", "Eof"}
      [] fn = "parse_definition" -> {"Semicolon", "Eof"}
      [] fn = "parse_if" -> {"Then", "Else", "Eof"}
      [] fn = "parse_if_else" -> {"Then", "Eof"}
      [] fn = "parse_begin" -> {"Until", "While", "Eof"}
      [] fn = "parse_begin_while" -> {"Repeat", "Eof"}
      [] fn = "parse_do_loop" -> {"Loop", "PlusLoop", "Eof"}
      [] fn = "parse_stack_effect" -> Tokens

\* The arms that end the construct, and the arms that begin its second
\* part.
Closes ==
    ("parse_definition" :> {"Semicolon"}) @@ ("parse_if" :> {"Then"})
    @@ ("parse_if_else" :> {"Then"}) @@ ("parse_begin" :> {"Until"})
    @@ ("parse_begin_while" :> {"Repeat"})
    @@ ("parse_do_loop" :> {"Loop", "PlusLoop"})
    @@ ("parse_stack_effect" :> {"RightParen"})

SecondPart == ("parse_if" :> "parse_if_else") @@ ("parse_begin" :> "parse_begin_while")

\* The parse function that parse_word calls after an opening token.
Opens == ("If" :> "parse_if") @@ ("Begin" :> "parse_begin") @@ ("Do" :> "parse_do_loop")

InitParse ==
    /\ tokens \in UNION {[1..n -> BodyTokens] \cup [1..n -> DeclarationTokens] :
                            n \in 0..MaxTokens}
                  \cup {TestSimpleDefinition, TestWithStackEffect, TestIfThen,
                        TestBeginUntil}
    /\ position = 0
    /\ pending_value = "None"
    /\ active = <<"parse_program">>
    /\ parse_pc = "run"
    /\ CoreIdle /\ StatsIdle /\ LowerIdle /\ GraphIdle

InProgram == parse_pc = "run" /\ Top = "parse_program"

InConstruct == parse_pc = "run" /\ Top # "parse_program"

\* The `_` arm of a loop: the token goes to parse_word.
AtWord == parse_pc = "run" /\ Peek \notin Handled(Top)

\* parse_program: the while loop ends, Ok(program).
ProgramReturned ==
    /\ InProgram
    /\ Peek = "Eof"
    /\ parse_pc' = "ok"
    /\ UNCHANGED <<tokens, position, pending_value, active>>
    /\ ParseOnly

\* parse_program, Colon: parse_definition expects the colon and reads the
\* name and the stack effect's parenthesis, and enters its body loop.
DefinitionEntered ==
    /\ InProgram
    /\ Peek = "Colon"
    /\ TokenAt(position + 1) = "Word"
    /\ pending_value' = "None"
    /\ IF TokenAt(position + 2) = "LeftParen"
       THEN /\ position' = position + 3
            /\ active' = active \o <<"parse_definition", "parse_stack_effect">>
       ELSE /\ position' = position + 2
            /\ active' = Append(active, "parse_definition")
    /\ UNCHANGED <<tokens, parse_pc>>
    /\ ParseOnly

\* parse_definition: no word name after the colon.
DefinitionNameMissing ==
    /\ InProgram
    /\ Peek = "Colon"
    /\ TokenAt(position + 1) # "Word"
    /\ pending_value' = "None"
    /\ position' = position + 2
    /\ parse_pc' = "err"
    /\ UNCHANGED <<tokens, active>>
    /\ ParseOnly

\* parse_program, Variable.
VariableDeclared ==
    /\ InProgram
    /\ Peek = "Variable"
    /\ pending_value' = "None"
    /\ position' = position + 2
    /\ parse_pc' = IF TokenAt(position + 1) = "Word" THEN "run" ELSE "err"
    /\ UNCHANGED <<tokens, active>>
    /\ ParseOnly

\* parse_program, Constant.
ConstantDeclared ==
    /\ InProgram
    /\ Peek = "Constant"
    /\ pending_value' = "None"
    /\ IF pending_value = "Some"
       THEN /\ position' = position + 2
            /\ parse_pc' = IF TokenAt(position + 1) = "Word" THEN "run" ELSE "err"
       ELSE /\ position' = position + 1
            /\ parse_pc' = "err"
    /\ UNCHANGED <<tokens, active>>
    /\ ParseOnly

\* parse_program, Integer: the value is kept for a CONSTANT that may follow.
IntegerPending ==
    /\ InProgram
    /\ Peek = "Integer"
    /\ pending_value' = "Some"
    /\ position' = position + 1
    /\ UNCHANGED <<tokens, active, parse_pc>>
    /\ ParseOnly

\* parse_word: a literal or a word reference.
WordParsed ==
    /\ AtWord
    /\ Peek \in {"Integer", "Float", "String", "Word"}
    /\ pending_value' = "None"
    /\ position' = position + 1
    /\ UNCHANGED <<tokens, active, parse_pc>>
    /\ ParseOnly

\* parse_word: IF, BEGIN or DO; the construct's parse function is called.
ConstructOpened ==
    /\ AtWord
    /\ Peek \in DOMAIN Opens
    /\ pending_value' = "None"
    /\ position' = position + 1
    /\ active' = Append(active, Opens[Peek])
    /\ UNCHANGED <<tokens, parse_pc>>
    /\ ParseOnly

\* parse_word: any other token is unexpected.
UnexpectedToken ==
    /\ AtWord
    /\ Peek \notin {"Integer", "Float", "String", "Word"} \cup DOMAIN Opens
    /\ pending_value' = "None"
    /\ parse_pc' = "err"
    /\ UNCHANGED <<tokens, position, active>>
    /\ ParseOnly

\* The token that ends the construct: its parse function returns (after
\* the semicolon of a definition an IMMEDIATE is taken too).
ConstructClosed ==
    /\ InConstruct
    /\ Peek \in Closes[Top]
    /\ position' = IF Top = "parse_definition" /\ TokenAt(position + 1) = "Immediate"
                   THEN position + 2 ELSE position + 1
    /\ active' = Front(active)
    /\ UNCHANGED <<tokens, pending_value, parse_pc>>
    /\ ParseOnly

\* ELSE and WHILE: the inner loop of parse_if and parse_begin begins.
SecondPartEntered ==
    /\ InConstruct
    /\ Top \in DOMAIN SecondPart
    /\ Peek \in Handled(Top) \ (Closes[Top] \cup {"Eof"})
    /\ position' = position + 1
    /\ active' = Append(Front(active), SecondPart[Top])
    /\ UNCHANGED <<tokens, pending_value, parse_pc>>
    /\ ParseOnly

\* parse_stack_effect: every token but the right parenthesis is taken.
StackEffectToken ==
    /\ InConstruct
    /\ Top = "parse_stack_effect"
    /\ Peek \notin {"RightParen", "Eof"}
    /\ position' = position + 1
    /\ UNCHANGED <<tokens, pending_value, active, parse_pc>>
    /\ ParseOnly

\* A loop that treats the end of input as the end of its construct.
UnterminatedAccepted ==
    /\ InConstruct
    /\ Peek = "Eof"
    /\ active' = Front(active)
    /\ UNCHANGED <<tokens, position, pending_value, parse_pc>>
    /\ ParseOnly

\* Eof inside a definition, a stack effect or a control structure.
Unterminated ==
    /\ InConstruct
    /\ Peek = "Eof"
    /\ parse_pc' = "err"
    /\ UNCHANGED <<tokens, position, pending_value, active>>
    /\ ParseOnly

NextParse ==
    \/ ProgramReturned
    \/ DefinitionEntered
    \/ DefinitionNameMissing
    \/ VariableDeclared
    \/ ConstantDeclared
    \/ IntegerPending
    \/ WordParsed
    \/ ConstructOpened
    \/ UnexpectedToken
    \/ ConstructClosed
    \/ SecondPartEntered
    \/ StackEffectToken
    \/ Unterminated

SpecParse == InitParse /\ [][NextParse]_vars

\* The parser is a sequential computation: it takes its next step as long
\* as it has one.
FairSpecParse == SpecParse /\ WF_vars(NextParse)

\* Sequences of words and integers.
IsPlain(seq) == \A k \in 1..Len(seq) : seq[k] \in {"Word", "Integer"}

\* The input is a definition, an IF, an IF...ELSE, a BEGIN, a
\* BEGIN...WHILE or a DO that nothing closes before the end of the input.
Unclosed ==
    \/ /\ Len(tokens) >= 2
       /\ tokens[1] = "Colon" /\ tokens[2] = "Word"
       /\ IsPlain(SubSeq(tokens, 3, Len(tokens)))
    \/ /\ tokens # <<>>
       /\ tokens[1] \in {"If", "Begin", "Do"}
       /\ IsPlain(Tail(tokens))
    \/ \E k \in 2..Len(tokens) :
          /\ <<tokens[1], tokens[k]>> \in {<<"If", "Else">>, <<"Begin", "While">>}
          /\ IsPlain(SubSeq(tokens, 2, k - 1))
          /\ IsPlain(SubSeq(tokens, k + 1, Len(tokens)))

\* C29: parsing terminates on every finite token sequence, with a Program
\* or with a ParseError; every loop iteration of the parser takes at least
\* one token or returns; and an unclosed definition, IF, IF...ELSE, BEGIN,
\* BEGIN...WHILE or DO at the end of the input yields a ParseError.
ParsingTerminates ==
    /\ <>(parse_pc \in {"ok", "err"})
    /\ [][position' > position \/ parse_pc' \in {"ok", "err"}]_vars
    /\ [][(InConstruct /\ Peek = "Eof") => parse_pc' = "err"]_vars
    /\ [](Unclosed => parse_pc # "ok")
    /\ Unclosed ~> (parse_pc = "err")

\* BEGIN...WHILE was met inside an IF and the input ended there: the
\* parser returned a ParseError.
NestedUnclosedRejected ==
    /\ parse_pc = "err"
    /\ active = <<"parse_program", "parse_if", "parse_begin_while">>
    /\ position = Len(tokens)


-----------------------------------------------------------------------------
(***************************************************************************)
(* CallGraph (section 4.2 of the specification; its source is not among    *)
(* the repository's files).  A graph is the list of the program's words,   *)
(* in insertion order, each with its edges in order of first occurrence;   *)
(* an edge is a callee and the number of call sites.                       *)
(***************************************************************************)

\* An instruction with a nested body (a control structure).
Instruction_Nested(body) == [op |-> "Nested", body |-> body]

\* pattern_analyze_call_graph: a = [Dup], b = [Call a].
PatternAnalyzeCallGraph ==
    add_word(add_word(ForthIR_new, WordDef_new("a", <<Instruction_Dup>>)),
             WordDef_new("b", <<Instruction_Call("a")>>))

\* b calls a at the top of its body and inside two nested bodies, and
\* calls itself in between.
NestedCallSites ==
    add_word(add_word(ForthIR_new, WordDef_new("a", <<Instruction_Dup>>)),
             WordDef_new("b",
                 <<Instruction_Nested(
                       <<Instruction_Call("b"),
                         Instruction_Nested(<<Instruction_Call("a")>>)>>),
                   Instruction_Call("a"),
                   Instruction_Nested(<<Instruction_Call("a")>>)>>))

\* Two disjoint cycles, a and b calling each other and c calling itself,
\* and a word that calls into both.
DisjointCycles ==
    add_word(add_word(add_word(add_word(ForthIR_new,
        WordDef_new("d", <<Instruction_Call("c"), Instruction_Call("a")>>)),
        WordDef_new("a", <<Instruction_Call("b")>>)),
        WordDef_new("b", <<Instruction_Dup, Instruction_Call("a")>>)),
        WordDef_new("c", <<Instruction_Nested(<<Instruction_Call("c")>>)>>))

Edge(callee, count) == [callee |-> callee, count |-> count]

\* A call site that always makes a new edge.
RecordCallAsNewEdge(edges, callee) == Append(edges, Edge(callee, 1))

\* A call site: the count of the callee's edge goes up, or the edge is made.
RecordCall(edges, callee) ==
    IF \E k \in 1..Len(edges) : edges[k].callee = callee
    THEN [k \in 1..Len(edges) |->
             IF edges[k].callee = callee
             THEN Edge(callee, edges[k].count + 1) ELSE edges[k]]
    ELSE Append(edges, Edge(callee, 1))

RECURSIVE ScanCalls(_, _)
\* The scan of an instruction list, nested bodies included.
ScanCalls(instructions, edges) ==
    IF instructions = <<>> THEN edges
    ELSE ScanCalls(Tail(instructions),
             CASE Head(instructions).op = "Call" ->
                     RecordCall(edges, Head(instructions).name)
               [] Head(instructions).op = "Nested" ->
                     ScanCalls(Head(instructions).body, edges)
               [] OTHER -> edges)

CallGraph_build(x) ==
    [i \in 1..Len(x.words) |->
        [caller |-> x.words[i].name,
         edges |-> ScanCalls(x.words[i].instructions, <<>>)]]

\* The edges of a caller (none for a name the graph does not have).
EdgesOf(g, caller) ==
    IF \E i \in 1..Len(g) : g[i].caller = caller
    THEN g[CHOOSE i \in 1..Len(g) : g[i].caller = caller].edges
    ELSE <<>>

get_callees(g, caller) ==
    [k \in 1..Len(EdgesOf(g, caller)) |-> EdgesOf(g, caller)[k].callee]

get_call_count(g, caller, callee) ==
    IF \E k \in 1..Len(EdgesOf(g, caller)) : EdgesOf(g, caller)[k].callee = callee
    THEN EdgesOf(g, caller)[CHOOSE k \in 1..Len(EdgesOf(g, caller)) :
                               EdgesOf(g, caller)[k].callee = callee].count
    ELSE 0

\* A cycle reported with every name of the active stack.
CycleOfWholeStack(active_stack, name) == Range(active_stack)

\* The cycle a back-edge to `name` closes: the names of the active stack
\* from `name` up.
CycleOf(active_stack, name) ==
    {active_stack[k] : k \in {j \in 1..Len(active_stack) :
        \E i \in 1..j : active_stack[i] = name}}

RECURSIVE VisitCallees(_, _, _, _)
\* The depth-first traversal: `callees` are the callees of the top of the
\* active stack still to follow; acc holds the names visited so far and the
\* cycles found so far.
VisitCallees(g, active_stack, callees, acc) ==
    IF callees = <<>> THEN acc
    ELSE With(Head(callees), LAMBDA callee :
         VisitCallees(g, active_stack, Tail(callees),
            IF callee \in Range(active_stack)
            THEN [acc EXCEPT !.cycles = Append(@, CycleOf(active_stack, callee))]
            ELSE IF callee \in acc.visited THEN acc
            ELSE VisitCallees(g, Append(active_stack, callee),
                              get_callees(g, callee),
                              [acc EXCEPT !.visited = @ \cup {callee}])))

RECURSIVE VisitWords(_, _, _)
\* The traversal is started from every word not visited yet.
VisitWords(g, i, acc) ==
    IF i > Len(g) THEN acc
    ELSE VisitWords(g, i + 1,
            IF g[i].caller \in acc.visited THEN acc
            ELSE VisitCallees(g, <<g[i].caller>>, get_callees(g, g[i].caller),
                              [acc EXCEPT !.visited = @ \cup {g[i].caller}]))

find_cycles(g) == VisitWords(g, 1, [visited |-> {}, cycles |-> <<>>]).cycles

\* The names of the words of the programs of the model, and an absent one.
QueryNames == {"a", "b", "c", "d", "absent"}

\* The names the queries of the model are made with.
AskedNames == {"a", "b", "absent"}

InitGraph ==
    /\ \/ IsIR(ir, ForthIR_new, MaxIRSize)
       \/ ir \in Examples \cup {PatternAnalyzeCallGraph, NestedCallSites, DisjointCycles}
    /\ level = "None"
    /\ call_graph = <<>>
    /\ cycles = <<>>
    /\ answer = NoAnswer
    /\ graph_pc = "start"
    /\ SSAIdle /\ InlineIdle /\ OptIdle /\ FixIdle
    /\ StatsIdle /\ LowerIdle /\ ParseIdle

\* CallGraph::build(&ir)
BuildCallGraph ==
    /\ graph_pc = "start"
    /\ call_graph' = CallGraph_build(ir)
    /\ graph_pc' = "built"
    /\ UNCHANGED <<ir, level, cycles, answer>>
    /\ GraphOnly

\* call_graph.get_callees(caller)
GetCallees ==
    /\ graph_pc \in {"built", "analysed"}
    /\ \E caller \in AskedNames :
          answer' = [query |-> "get_callees", caller |-> caller, callee |-> "",
                     value |-> get_callees(call_graph, caller)]
    /\ UNCHANGED <<ir, level, call_graph, cycles, graph_pc>>
    /\ GraphOnly

\* call_graph.get_call_count(caller, callee)
GetCallCount ==
    /\ graph_pc \in {"built", "analysed"}
    /\ \E caller \in AskedNames : \E callee \in AskedNames :
          answer' = [query |-> "get_call_count", caller |-> caller,
                     callee |-> callee,
                     value |-> get_call_count(call_graph, caller, callee)]
    /\ UNCHANGED <<ir, level, call_graph, cycles, graph_pc>>
    /\ GraphOnly

\* call_graph.find_cycles()
FindCycles ==
    /\ graph_pc = "built"
    /\ cycles' = find_cycles(call_graph)
    /\ graph_pc' = "analysed"
    /\ UNCHANGED <<ir, level, call_graph, answer>>
    /\ GraphOnly

NextGraph == BuildCallGraph \/ GetCallees \/ GetCallCount \/ FindCycles

SpecGraph == InitGraph /\ [][NextGraph]_vars

(***************************************************************************)
(* What the graph is to say, read off the program.                         *)
(***************************************************************************)

RECURSIVE CallSites(_)
\* The callees of the call sites of an instruction list, in order, those
\* of nested bodies included.
CallSites(instructions) ==
    IF instructions = <<>> THEN <<>>
    ELSE (CASE Head(instructions).op = "Call" -> <<Head(instructions).name>>
            [] Head(instructions).op = "Nested" -> CallSites(Head(instructions).body)
            [] OTHER -> <<>>)
         \o CallSites(Tail(instructions))

\* The call sites of a caller (none for a name that is not a word).
CallSitesOf(caller) ==
    IF HasWord(ir, caller) THEN CallSites(get_word(ir, caller).instructions)
    ELSE <<>>

FirstSite(sites, callee) ==
    CHOOSE k \in 1..Len(sites) :
        sites[k] = callee /\ \A j \in 1..(k - 1) : sites[j] # callee

\* get_callees(caller) is right: every callee once, in order of first
\* occurrence.
CalleesAreRight(caller, callees) ==
    /\ Range(callees) = Range(CallSitesOf(caller))
    /\ \A i \in 1..Len(callees) : \A j \in 1..Len(callees) :
          i < j => FirstSite(CallSitesOf(caller), callees[i])
                      < FirstSite(CallSitesOf(caller), callees[j])

\* get_call_count(caller, callee) is right: the number of call sites.
CountIsRight(caller, callee, count) ==
    count = Cardinality({k \in 1..Len(CallSitesOf(caller)) :
                            CallSitesOf(caller)[k] = callee})

\* C23: the graph has, for each caller, one edge per distinct callee, whose
\* count is the number of call sites to that callee in the caller's body,
\* those inside nested control structures included; get_callees returns
\* each callee once, in order of first occurrence; get_call_count returns 0
\* for a pair without an edge.
GraphCountsCallSites ==
    /\ graph_pc \in {"built", "analysed"} =>
          \A caller \in QueryNames :
              /\ CalleesAreRight(caller, get_callees(call_graph, caller))
              /\ \A callee \in QueryNames :
                    CountIsRight(caller, callee,
                                 get_call_count(call_graph, caller, callee))
    /\ answer.query = "get_callees" => CalleesAreRight(answer.caller, answer.value)
    /\ answer.query = "get_call_count" =>
          CountIsRight(answer.caller, answer.callee, answer.value)

\* b calls a three times, twice from nested bodies, after its first call
\* to itself: the count of b's edge to a was asked for.
NestedSitesCounted ==
    /\ ir = NestedCallSites
    /\ answer.query = "get_call_count"
    /\ answer.caller = "b"
    /\ answer.callee = "a"
    /\ answer.value = 3
    /\ get_callees(call_graph, "b") = <<"b", "a">>
    /\ get_call_count(call_graph, "a", "b") = 0

\* There is a call site from one word to the other.
Calling(caller, callee) == callee \in Range(CallSitesOf(caller))

\* The sets of words that lie on one cycle of calls: the words of the set
\* can be put in an order in which each calls the next and the last calls
\* the first.
CycleSets ==
    {S \in SUBSET {ir.words[i].name : i \in 1..Len(ir.words)} :
        /\ S # {}
        /\ \E order \in [1..Cardinality(S) -> S] :
              /\ \A i \in 1..Cardinality(S) : \A j \in 1..Cardinality(S) :
                    i # j => order[i] # order[j]
              /\ \A i \in 1..Cardinality(S) :
                    Calling(order[i], order[(i % Cardinality(S)) + 1])}

=============================================================================
